---- MODULE Spec2Model ----
(***************************************************************************)
(* Archive filter and transfer engine of the NFS volume store:             *)
(*   lib/portlayer/storage/nfs/data_source.go  (Export: packUsingTarget)   *)
(*   lib/portlayer/storage/nfs/data_sink.go    (Import: unpackUsingTarget) *)
(*   lib/portlayer/storage/nfs/import.go       (VolumeStore.Import)        *)
(*                                                                         *)
(* Strings are sequences of one-character strings, so that the byte-wise   *)
(* operations of the code (strings.TrimPrefix, filepath.Split,             *)
(* filepath.Join) and the segment-wise ones (the filter) differ where they *)
(* differ in the program.                                                  *)
(***************************************************************************)
EXTENDS Integers, Sequences, FiniteSets, TLC

VARIABLES
    spec,       \* the FilterSpec of the transfer
    f_path,     \* filter harness: the path handed to Excluded
    f_result,   \* filter harness: "none" before the call, then "excluded" or "included"
    fs,         \* the backend: resolved path -> [kind, data, perm]
    specMap,    \* CreateFilterSpec: the role mapping handed in
    created,    \* CreateFilterSpec: the FilterSpec returned, << >> for none
    c_err,      \* CreateFilterSpec: the error returned, "none" before the call
    fs0,        \* the backend as it was before the transfer
    faults,     \* backend failures that may still be injected
    infoNil,    \* whether the backend's Lookup returns a nil FileInfo with an error
    pipe,       \* tar chunks written to the stream and not yet read
    pipeW,      \* write end of the stream: "open" or "closed"
    pipeErr,    \* the error the write end was closed with ("nil": clean end-of-file)
    stream0,    \* Import alone: the tar stream handed in
    volumePath, \* NFSDataSink.volumePath
    i_pc,       \* unpackUsingTarget: position
    i_err,      \* unpackUsingTarget: returned error
    header,     \* unpackUsingTarget: the tar header being processed
    i_unread,   \* tar.Reader: the current entry's data has not been read
    finalTargetPath, \* unpackUsingTarget: volumePath joined with the rebase path
    writePath,  \* unpackUsingTarget: backend path of the current entry
    currentPath,    \* mkdirAll: the (outer) currentPath
    dirsToCreate,   \* mkdirAll: names still to create
    e_dir,      \* packUsingTarget: dir, the volume path of the data source
    e_pc,       \* producer goroutine: position
    readList,   \* producer goroutine: the work-list
    e_fatal,    \* producer goroutine: the error it returned on ("nil": none)
    tw_err,     \* tar.Writer: its sticky error
    tw_pending, \* tar.Writer: bytes of the current entry not yet written
    emitted,    \* backend path -> headers written for it (MaxEmitted: that or more)
    closeCount, \* calls of w.CloseWithError
    targetPath, \* producer goroutine: the walk root findReadTarget returned, empty before (line 77)
    e_iter,     \* producer goroutine: parity of the loop iterations begun (line 89)
    pipeR,      \* read end of the stream: "open" or "closed"
    c_end,      \* the consumer: "none", or the terminal condition it observed
    v_pc,       \* VolumeStore.Import: position
    v_err,      \* VolumeStore.Import: returned error
    mounts,     \* successful Service.Mount calls
    unmounts,   \* Service.Unmount calls
    unmountErr, \* what the last Service.Unmount returned ("none": not called)
    close_ret,  \* what NFSDataSink.Close returned ("none": not called)
    ctx,        \* Retry: the context: "background" (never done), "live" or "done"
    r_pc,       \* Retry: position
    r_calls,    \* Retry: calls of WaitForResult made
    r_result,   \* Retry: what the last WaitForResult call came to ("none": no call yet)
    r_ret,      \* Retry: what it returned ("none": not returned)
    backoffFactor,  \* Retry: backoffFactor
    sleepValue, \* Retry: sleepValue of the last wait, in milliseconds (0: none yet)
    r_select,   \* Retry: the case the last select took ("none": none yet)
    s_pc,       \* dsBackend.Save: position
    s_data,     \* dsBackend.Save: the content of the reader r
    s_err,      \* dsBackend.Save: returned error
    tmpfile,    \* datastore: content of the file at tmpfile ("none": absent)
    dstfile,    \* datastore: content of the file at path ("none": absent)
    mvCalls,    \* dsBackend.Save: calls of d.ds.Mv made
    mvErr       \* dsBackend.Save: what the last d.ds.Mv returned ("none": no call yet)

----------------------------------------------------------------------------
(* Bounds of the model *)

\* backend failures injected in one run
MaxFaults == 1

\* entries of a tar stream handed to Import
MaxEntries == 2

\* length of mkdirAll's dirsToCreate past which the model does not follow it
MaxDirsToCreate == 3

\* length of the producer's work-list past which the model does not follow it
MaxReadList == 4

\* headers counted for one node of the tree: MaxEmitted stands for that or more
MaxEmitted == 2

\* nodes of an exported tree below its root
MaxTreeNodes == 3

\* calls of WaitForResult one Retry is followed for
MaxCalls == 4

\* calls of d.ds.Mv one Save is followed for
MaxMoves == 4

----------------------------------------------------------------------------
(* Strings and paths *)

Sep == "/"

\* the empty string ""
Empty == << >>

\* the root path "/"
Root == <<Sep>>

HasPrefix(s, prefix) ==
    /\ Len(prefix) <= Len(s)
    /\ SubSeq(s, 1, Len(prefix)) = prefix

TrimPrefix(s, prefix) ==
    IF HasPrefix(s, prefix) THEN SubSeq(s, Len(prefix) + 1, Len(s)) ELSE s

\* the index of the last separator of s, 0 when there is none
LastSep(s) ==
    LET idx == {i \in 1..Len(s) : s[i] = Sep}
    IN  IF idx = {} THEN 0 ELSE CHOOSE i \in idx : \A j \in idx : j <= i

\* filepath.Split: the directory part keeps its trailing separator
SplitDir(s) == SubSeq(s, 1, LastSep(s))

SplitFile(s) == SubSeq(s, LastSep(s) + 1, Len(s))

\* the non-empty segments of a path, in order (SegmentsOf is the definition,
\* Segments applies it to the value of its argument)
RECURSIVE Segments(_)
SegmentsOf(s) ==
    IF s = Empty THEN << >>
    ELSE IF LastSep(s) = 0 THEN <<s>>
    ELSE IF SplitFile(s) = Empty THEN Segments(SubSeq(s, 1, LastSep(s) - 1))
    ELSE Append(Segments(SubSeq(s, 1, LastSep(s) - 1)), SplitFile(s))

Segments(p) == CHOOSE r \in {SegmentsOf(s) : s \in {p}} : TRUE

\* the segments joined with separators
RECURSIVE JoinSegments(_)
JoinSegmentsOf(segs) ==
    IF segs = << >> THEN Empty
    ELSE IF Len(segs) = 1 THEN segs[1]
    ELSE JoinSegments(SubSeq(segs, 1, Len(segs) - 1)) \o <<Sep>> \o segs[Len(segs)]

JoinSegments(q) == CHOOSE r \in {JoinSegmentsOf(segs) : segs \in {q}} : TRUE

\* filepath.Clean on paths without "." and ".." elements: repeated and
\* trailing separators go, the root stays, the empty string becomes "."
Clean(s) ==
    IF s = Empty THEN <<".">>
    ELSE IF s[1] = Sep THEN <<Sep>> \o JoinSegments(Segments(s))
    ELSE JoinSegments(Segments(s))

\* filepath.Join of two elements: empty elements are ignored, the rest is
\* joined with a separator and cleaned; all empty gives ""
Join(a, b) ==
    IF a = Empty /\ b = Empty THEN Empty
    ELSE IF a = Empty THEN Clean(b)
    ELSE IF b = Empty THEN Clean(a)
    ELSE Clean(a \o <<Sep>> \o b)

\* p is a prefix of q by whole path segments
IsSegPrefix(p, q) ==
    LET ps == Segments(p)
        qs == Segments(q)
    IN  /\ Len(ps) <= Len(qs)
        /\ SubSeq(qs, 1, Len(ps)) = ps

Depth(p) == Len(Segments(p))

----------------------------------------------------------------------------
(* FilterSpec and its resolution (lib/archive, section 4.1 of the spec) *)

FilterSpec(target, incl, excl, rebase, strip) ==
    [TargetPath |-> target, Inclusions |-> incl, Exclusions |-> excl,
     RebasePath |-> rebase, StripPath |-> strip]

\* the roles a path may have in the mapping CreateFilterSpec is given
Roles == {"target", "include", "exclude"}

\* the result of CreateFilterSpec: an error and no FilterSpec, or a FilterSpec
CreateFailed == [err |-> "ErrTarget", spec |-> << >>]

CreateDone(s) == [err |-> "nil", spec |-> <<s>>]

\* CreateFilterSpecFrom that lets a later target entry replace an earlier one
\* and accepts a mapping without any
RECURSIVE CreateFilterSpecLastTargetWins(_, _, _, _)
CreateFilterSpecLastTargetWins(m, todo, acc, seen) ==
    IF todo = {} THEN CreateDone(acc)
    ELSE LET k == CHOOSE q \in todo : TRUE
             rest == todo \ {k}
         IN  IF m[k] = "target"
             THEN CreateFilterSpecLastTargetWins(m, rest, [acc EXCEPT !.TargetPath = k], TRUE)
             ELSE IF m[k] = "include"
             THEN CreateFilterSpecLastTargetWins(m, rest,
                      [acc EXCEPT !.Inclusions = @ \cup {k}], seen)
             ELSE CreateFilterSpecLastTargetWins(m, rest,
                      [acc EXCEPT !.Exclusions = @ \cup {k}], seen)

\* CreateFilterSpec over the entries of m still to do: each entry is put in
\* the FilterSpec by its role, a second target is an error, and so is the end
\* of the mapping without a target (section 4.1 of the spec, Contract)
RECURSIVE CreateFilterSpecFrom(_, _, _, _)
CreateFilterSpecFrom(m, todo, acc, seen) ==
    IF todo = {} THEN (IF seen THEN CreateDone(acc) ELSE CreateFailed)
    ELSE LET k == CHOOSE q \in todo : TRUE
             rest == todo \ {k}
         IN  IF m[k] = "target"
             THEN IF seen THEN CreateFailed
                  ELSE CreateFilterSpecFrom(m, rest, [acc EXCEPT !.TargetPath = k], TRUE)
             ELSE IF m[k] = "include"
             THEN CreateFilterSpecFrom(m, rest, [acc EXCEPT !.Inclusions = @ \cup {k}], seen)
             ELSE CreateFilterSpecFrom(m, rest, [acc EXCEPT !.Exclusions = @ \cup {k}], seen)

CreateFilterSpec(m) ==
    CreateFilterSpecFrom(m, DOMAIN m, FilterSpec(Empty, {}, {}, Empty, Empty), FALSE)

\* the depth of the longest path of set that is a segment prefix of path, -1 if none
LongestPrefix(path, set) ==
    LET m == {Depth(p) : p \in {q \in set : IsSegPrefix(q, path)}}
    IN  IF m = {} THEN -1 ELSE CHOOSE d \in m : \A e \in m : e <= d

ExcludedTieExcludes(path, s) ==
    IF ~IsSegPrefix(s.TargetPath, path) THEN TRUE
    ELSE LET longestExclusion == LongestPrefix(path, s.Exclusions)
             longestInclusion == LongestPrefix(path, s.Inclusions)
         IN  IF longestExclusion = -1 THEN FALSE
             ELSE longestInclusion = -1 \/ longestInclusion <= longestExclusion

Excluded(path, s) ==
    IF ~IsSegPrefix(s.TargetPath, path) THEN TRUE
    ELSE LET longestExclusion == LongestPrefix(path, s.Exclusions)
             longestInclusion == LongestPrefix(path, s.Inclusions)
         IN  IF longestExclusion = -1 THEN FALSE
             ELSE longestInclusion = -1 \/ longestInclusion < longestExclusion

----------------------------------------------------------------------------
(* Names used by the inputs *)

pA    == <<"/", "a">>
pAs   == <<"/", "a", "/">>
pAB   == <<"/", "a", "/", "b">>
pABF  == <<"/", "a", "/", "b", "/", "f">>
pAF   == <<"/", "a", "/", "f">>
pAb   == <<"/", "a", "b">>
pC    == <<"/", "c">>
pCF   == <<"/", "c", "/", "f">>
pF    == <<"/", "f">>
pG    == <<"/", "g">>
pD    == <<"/", "d">>
pV    == <<"/", "v">>
pW    == <<"/", "w">>

----------------------------------------------------------------------------
(* The backend (Target): a directory tree addressed from the mount root *)

\* Target.Lookup descends from the root of the mount, one path element at a
\* time: empty elements are skipped, a relative path starts at the root
Resolve(p) == <<Sep>> \o JoinSegments(Segments(p))

ParentOf(p) ==
    LET segs == Segments(p)
    IN  <<Sep>> \o JoinSegments(SubSeq(segs, 1, Len(segs) - 1))

DirNode(perm) == [kind |-> "dir", data |-> Empty, perm |-> perm]

FileNode(data, perm) == [kind |-> "file", data |-> data, perm |-> perm]

Exists(tree, p) == Resolve(p) \in DOMAIN tree

IsDirAt(tree, p) == Exists(tree, p) /\ tree[Resolve(p)].kind = "dir"

IsFileAt(tree, p) == Exists(tree, p) /\ tree[Resolve(p)].kind = "file"

\* the tree with node n put at p
Put(tree, p, n) ==
    [q \in DOMAIN tree \cup {Resolve(p)} |-> IF q = Resolve(p) THEN n ELSE tree[q]]

\* the tree without p
Without(tree, p) == [q \in DOMAIN tree \ {Resolve(p)} |-> tree[q]]

\* Target.Mkdir succeeds when p is absent and its parent is a directory
MkdirError(tree, p) ==
    IF Exists(tree, p) THEN "EEXIST"
    ELSE IF ~IsDirAt(tree, ParentOf(p)) THEN "ENOENT"
    ELSE "nil"

\* Target.OpenFile creates the file when its parent is a directory
OpenFileError(tree, p) ==
    IF IsDirAt(tree, p) THEN "EISDIR"
    ELSE IF ~IsDirAt(tree, ParentOf(p)) THEN "ENOENT"
    ELSE "nil"

----------------------------------------------------------------------------
(* The tar stream: header chunks and data chunks *)

Hdr(name, typeflag, modeDir, perm, size) ==
    [chunk |-> "hdr", Name |-> name, Typeflag |-> typeflag, ModeDir |-> modeDir,
     Perm |-> perm, Size |-> size]

Data(bytes) == [chunk |-> "data", Bytes |-> bytes]

NoHeader == Hdr(Empty, "none", FALSE, "none", 0)

\* header.FileInfo().Mode().IsDir(): the type flag says directory, or the
\* mode field carries the directory bits
ModeIsDir(h) == h.Typeflag = "dir" \/ h.ModeDir

----------------------------------------------------------------------------
(* Import: unpackUsingTarget, mkdirAll, createRegularFile (data_sink.go) *)

filterVars == <<f_path, f_result, specMap, created, c_err>>

configVars == <<spec, fs0, infoNil, stream0, volumePath, e_dir>>

exportVars == <<e_pc, readList, e_fatal, tw_err, tw_pending, emitted, closeCount, e_iter, targetPath>>

consumerVars == <<pipeR, c_end>>

volumeVars == <<v_pc, v_err, mounts, unmounts, unmountErr, close_ret>>

nonImportVars == <<filterVars, exportVars, consumerVars, volumeVars>>

pipeVars == <<pipe, pipeW, pipeErr>>

mkdirVars == <<currentPath, dirsToCreate>>

importVars == <<i_pc, i_err, header, i_unread, finalTargetPath, writePath, currentPath, dirsToCreate>>

retryVars == <<ctx, r_pc, r_calls, r_result, r_ret, backoffFactor, sleepValue, r_select>>

saveVars == <<s_pc, s_data, s_err, tmpfile, dstfile, mvCalls, mvErr>>

utilVars == <<retryVars, saveVars>>

engineVars == <<fs, faults, pipeVars, configVars, importVars, nonImportVars>>

\* unpackUsingTarget returns e
ImportReturn(e) ==
    /\ i_pc' = "done"
    /\ i_err' = e

\* ImportStart that goes on whatever the Lookup of volumePath returned
ImportStartIgnoresLookup ==
    /\ i_pc = "start"
    /\ IF spec.RebasePath = Empty
       THEN /\ ImportReturn("ErrInvalidTarget")
            /\ UNCHANGED finalTargetPath
       ELSE /\ finalTargetPath' = Join(volumePath, spec.RebasePath)
            /\ i_pc' = "next"
            /\ UNCHANGED i_err
    /\ UNCHANGED <<faults, header, i_unread, writePath, mkdirVars, fs, pipeVars, configVars, utilVars,
                   nonImportVars>>

\* ImportStart that looks the volume up before it tests RebasePath
ImportStartLookupFirst ==
    /\ i_pc = "start"
    /\ \/ /\ ~Exists(fs, volumePath)
          /\ ImportReturn("ENOENT")
          /\ UNCHANGED <<finalTargetPath, faults>>
       \/ /\ faults > 0
          /\ faults' = faults - 1
          /\ ImportReturn("EIO")
          /\ UNCHANGED finalTargetPath
       \/ /\ Exists(fs, volumePath)
          /\ spec.RebasePath = Empty
          /\ ImportReturn("ErrInvalidTarget")
          /\ UNCHANGED <<finalTargetPath, faults>>
       \/ /\ Exists(fs, volumePath)
          /\ spec.RebasePath # Empty
          /\ finalTargetPath' = Join(volumePath, spec.RebasePath)
          /\ i_pc' = "next"
          /\ UNCHANGED <<i_err, faults>>
    /\ UNCHANGED <<header, i_unread, writePath, mkdirVars, fs, pipeVars, configVars, utilVars, nonImportVars>>

\* data_sink.go:64-83
ImportStart ==
    /\ i_pc = "start"
    /\ \/ /\ spec.RebasePath = Empty
          /\ ImportReturn("ErrInvalidTarget")
          /\ UNCHANGED <<finalTargetPath, faults>>
       \/ /\ spec.RebasePath # Empty
          /\ ~Exists(fs, volumePath)
          /\ ImportReturn("ENOENT")
          /\ UNCHANGED <<finalTargetPath, faults>>
       \/ /\ spec.RebasePath # Empty
          /\ faults > 0
          /\ faults' = faults - 1
          /\ ImportReturn("EIO")
          /\ UNCHANGED finalTargetPath
       \/ /\ spec.RebasePath # Empty
          /\ Exists(fs, volumePath)
          /\ finalTargetPath' = Join(volumePath, spec.RebasePath)
          /\ i_pc' = "next"
          /\ UNCHANGED <<i_err, faults>>
    /\ UNCHANGED <<header, i_unread, writePath, mkdirVars, fs, pipeVars, configVars, utilVars, nonImportVars>>

\* ImportNextEntry without the test of line 99: every entry is written
ImportNextEntryNoFilter ==
    /\ i_pc = "next"
    /\ pipe # << >>
    /\ ~i_unread
    /\ Head(pipe).chunk = "hdr"
    /\ pipe' = Tail(pipe)
    /\ header' = Head(pipe)
    /\ i_unread' = (Head(pipe).Size > 0)
    /\ writePath' = Join(finalTargetPath, TrimPrefix(Head(pipe).Name, spec.StripPath))
    /\ i_pc' = "mkdirAll"
    /\ UNCHANGED <<i_err, finalTargetPath, mkdirVars, fs, faults, pipeW, pipeErr, configVars, utilVars, nonImportVars>>

\* ImportNextEntry that treats every error of tr.Next() as the end of the stream
ImportNextEntryEveryErrorIsEOF ==
    /\ i_pc = "next"
    /\ \/ /\ pipe = << >>
          /\ pipeW = "closed"
          /\ ImportReturn("nil")
          /\ UNCHANGED <<header, i_unread, writePath, pipe>>
       \/ /\ pipe # << >>
          /\ i_unread
          /\ IF Head(pipe).chunk = "data"
             THEN /\ pipe' = Tail(pipe)
                  /\ i_unread' = FALSE
                  /\ UNCHANGED <<i_pc, i_err>>
             ELSE /\ ImportReturn("nil")
                  /\ UNCHANGED <<pipe, i_unread>>
          /\ UNCHANGED <<header, writePath>>
       \/ /\ pipe # << >>
          /\ ~i_unread
          /\ IF Head(pipe).chunk = "data"
             THEN /\ ImportReturn("nil")
                  /\ UNCHANGED <<pipe, header, i_unread, writePath>>
             ELSE /\ pipe' = Tail(pipe)
                  /\ header' = Head(pipe)
                  /\ i_unread' = (Head(pipe).Size > 0)
                  /\ i_err' = i_err
                  /\ IF Excluded(Head(pipe).Name, spec)
                     THEN /\ i_pc' = "next"
                          /\ UNCHANGED writePath
                     ELSE /\ writePath' = Join(finalTargetPath,
                                               TrimPrefix(Head(pipe).Name, spec.StripPath))
                          /\ i_pc' = "mkdirAll"
    /\ UNCHANGED <<finalTargetPath, mkdirVars, fs, faults, pipeW, pipeErr, configVars, utilVars, nonImportVars>>

\* ImportNextEntry that applies Excluded to the write path of the entry, after
\* strip and rebase
ImportNextEntryFilterOnWritePath ==
    /\ i_pc = "next"
    /\ \/ \* the stream has ended
          /\ pipe = << >>
          /\ pipeW = "closed"
          /\ ImportReturn(IF pipeErr # "nil" THEN pipeErr
                          ELSE IF i_unread THEN "ErrUnexpectedEOF" ELSE "nil")
          /\ UNCHANGED <<header, i_unread, writePath, pipe>>
       \/ \* the data of the entry before is skipped
          /\ pipe # << >>
          /\ i_unread
          /\ IF Head(pipe).chunk = "data"
             THEN /\ pipe' = Tail(pipe)
                  /\ i_unread' = FALSE
                  /\ UNCHANGED <<i_pc, i_err>>
             ELSE /\ ImportReturn("ErrHeader")
                  /\ UNCHANGED <<pipe, i_unread>>
          /\ UNCHANGED <<header, writePath>>
       \/ \* the next header
          /\ pipe # << >>
          /\ ~i_unread
          /\ IF Head(pipe).chunk = "data"
             THEN /\ ImportReturn("ErrHeader")
                  /\ UNCHANGED <<pipe, header, i_unread, writePath>>
             ELSE /\ pipe' = Tail(pipe)
                  /\ header' = Head(pipe)
                  /\ i_unread' = (Head(pipe).Size > 0)
                  /\ i_err' = i_err
                  /\ IF Excluded(Join(finalTargetPath,
                                       TrimPrefix(Head(pipe).Name, spec.StripPath)), spec)
                     THEN /\ i_pc' = "next"
                          /\ UNCHANGED writePath
                     ELSE /\ writePath' = Join(finalTargetPath,
                                               TrimPrefix(Head(pipe).Name, spec.StripPath))
                          /\ i_pc' = "mkdirAll"
    /\ UNCHANGED <<finalTargetPath, mkdirVars, fs, faults, pipeW, pipeErr, configVars, utilVars, nonImportVars>>

\* ImportNextEntry that joins the whole name of the entry onto the write root
ImportNextEntryNoStrip ==
    /\ i_pc = "next"
    /\ \/ \* the stream has ended
          /\ pipe = << >>
          /\ pipeW = "closed"
          /\ ImportReturn(IF pipeErr # "nil" THEN pipeErr
                          ELSE IF i_unread THEN "ErrUnexpectedEOF" ELSE "nil")
          /\ UNCHANGED <<header, i_unread, writePath, pipe>>
       \/ \* the data of the entry before is skipped
          /\ pipe # << >>
          /\ i_unread
          /\ IF Head(pipe).chunk = "data"
             THEN /\ pipe' = Tail(pipe)
                  /\ i_unread' = FALSE
                  /\ UNCHANGED <<i_pc, i_err>>
             ELSE /\ ImportReturn("ErrHeader")
                  /\ UNCHANGED <<pipe, i_unread>>
          /\ UNCHANGED <<header, writePath>>
       \/ \* the next header
          /\ pipe # << >>
          /\ ~i_unread
          /\ IF Head(pipe).chunk = "data"
             THEN /\ ImportReturn("ErrHeader")
                  /\ UNCHANGED <<pipe, header, i_unread, writePath>>
             ELSE /\ pipe' = Tail(pipe)
                  /\ header' = Head(pipe)
                  /\ i_unread' = (Head(pipe).Size > 0)
                  /\ i_err' = i_err
                  /\ IF Excluded(Head(pipe).Name, spec)
                     THEN /\ i_pc' = "next"
                          /\ UNCHANGED writePath
                     ELSE /\ writePath' = Join(finalTargetPath, Head(pipe).Name)
                          /\ i_pc' = "mkdirAll"
    /\ UNCHANGED <<finalTargetPath, mkdirVars, fs, faults, pipeW, pipeErr, configVars, utilVars, nonImportVars>>

\* tr.Next() and the dispatch on the entry, data_sink.go:86-107
ImportNextEntry ==
    /\ i_pc = "next"
    /\ \/ \* the stream has ended
          /\ pipe = << >>
          /\ pipeW = "closed"
          /\ ImportReturn(IF pipeErr # "nil" THEN pipeErr
                          ELSE IF i_unread THEN "ErrUnexpectedEOF" ELSE "nil")
          /\ UNCHANGED <<header, i_unread, writePath, pipe>>
       \/ \* the data of the entry before is skipped
          /\ pipe # << >>
          /\ i_unread
          /\ IF Head(pipe).chunk = "data"
             THEN /\ pipe' = Tail(pipe)
                  /\ i_unread' = FALSE
                  /\ UNCHANGED <<i_pc, i_err>>
             ELSE /\ ImportReturn("ErrHeader")
                  /\ UNCHANGED <<pipe, i_unread>>
          /\ UNCHANGED <<header, writePath>>
       \/ \* the next header
          /\ pipe # << >>
          /\ ~i_unread
          /\ IF Head(pipe).chunk = "data"
             THEN /\ ImportReturn("ErrHeader")
                  /\ UNCHANGED <<pipe, header, i_unread, writePath>>
             ELSE /\ pipe' = Tail(pipe)
                  /\ header' = Head(pipe)
                  /\ i_unread' = (Head(pipe).Size > 0)
                  /\ i_err' = i_err
                  /\ IF Excluded(Head(pipe).Name, spec)
                     THEN /\ i_pc' = "next"
                          /\ UNCHANGED writePath
                     ELSE /\ writePath' = Join(finalTargetPath,
                                               TrimPrefix(Head(pipe).Name, spec.StripPath))
                          /\ i_pc' = "mkdirAll"
    /\ UNCHANGED <<finalTargetPath, mkdirVars, fs, faults, pipeW, pipeErr, configVars, utilVars, nonImportVars>>

\* mkdirAll returned nil: a directory entry is finished, any other entry goes
\* on to createRegularFile (data_sink.go:109-128)
AfterMkdirAll == IF header.Typeflag = "dir" THEN "next" ELSE "createRegularFile"

\* mkdirAll up to its first Lookup, data_sink.go:180-199
MkdirAllEnter ==
    /\ i_pc = "mkdirAll"
    /\ \/ /\ ~ModeIsDir(header)
          /\ ImportReturn("ErrNonDirMode")
          /\ UNCHANGED <<mkdirVars, faults>>
       \/ /\ ModeIsDir(header)
          /\ IsFileAt(fs, writePath)
          /\ ImportReturn("EEXIST")
          /\ UNCHANGED <<mkdirVars, faults>>
       \/ /\ ModeIsDir(header)
          /\ IsDirAt(fs, writePath)
          /\ i_pc' = AfterMkdirAll
          /\ UNCHANGED <<i_err, mkdirVars, faults>>
       \/ /\ ModeIsDir(header)
          /\ \/ ~Exists(fs, writePath) /\ faults' = faults
             \/ faults > 0 /\ faults' = faults - 1
          /\ currentPath' = SplitDir(writePath)
          /\ dirsToCreate' = <<SplitFile(writePath)>>
          /\ i_pc' = "collect"
          /\ UNCHANGED i_err
    /\ UNCHANGED <<header, i_unread, finalTargetPath, writePath, fs, pipeVars, configVars, utilVars, nonImportVars>>

\* MkdirAllCollect that stops at anything that exists, directory or not
MkdirAllCollectAcceptsFile ==
    /\ i_pc = "collect"
    /\ \/ /\ currentPath = Root
          /\ i_pc' = "create"
          /\ UNCHANGED <<i_err, dirsToCreate, faults>>
       \/ /\ currentPath # Root
          /\ IsDirAt(fs, currentPath)
          /\ i_pc' = "create"
          /\ UNCHANGED <<i_err, dirsToCreate, faults>>
       \/ /\ currentPath # Root
          /\ IsFileAt(fs, currentPath)
          /\ i_pc' = "create"
          /\ UNCHANGED <<i_err, dirsToCreate, faults>>
       \/ /\ currentPath # Root
          /\ ~Exists(fs, currentPath)
          /\ Len(dirsToCreate) < MaxDirsToCreate
          /\ dirsToCreate' = <<SplitFile(currentPath)>> \o dirsToCreate
          /\ UNCHANGED <<i_pc, i_err, faults>>
       \/ /\ currentPath # Root
          /\ faults > 0
          /\ faults' = faults - 1
          /\ ImportReturn("EIO")
          /\ UNCHANGED dirsToCreate
    /\ UNCHANGED <<header, i_unread, finalTargetPath, writePath, currentPath, fs, pipeVars, configVars, utilVars, nonImportVars>>

\* one iteration of the loop that collects the missing directories,
\* data_sink.go:202-226.  The Split of line 217 assigns to a currentPath
\* declared in the loop body, so the currentPath the loop tests stays as it is.
MkdirAllCollect ==
    /\ i_pc = "collect"
    /\ \/ /\ currentPath = Root
          /\ i_pc' = "create"
          /\ UNCHANGED <<i_err, dirsToCreate, faults>>
       \/ /\ currentPath # Root
          /\ IsDirAt(fs, currentPath)
          /\ i_pc' = "create"
          /\ UNCHANGED <<i_err, dirsToCreate, faults>>
       \/ /\ currentPath # Root
          /\ IsFileAt(fs, currentPath)
          /\ ImportReturn("ErrConflict")
          /\ UNCHANGED <<dirsToCreate, faults>>
       \/ /\ currentPath # Root
          /\ ~Exists(fs, currentPath)
          /\ Len(dirsToCreate) < MaxDirsToCreate
          /\ dirsToCreate' = <<SplitFile(currentPath)>> \o dirsToCreate
          /\ UNCHANGED <<i_pc, i_err, faults>>
       \/ /\ currentPath # Root
          /\ faults > 0
          /\ faults' = faults - 1
          /\ ImportReturn("EIO")
          /\ UNCHANGED dirsToCreate
    /\ UNCHANGED <<header, i_unread, finalTargetPath, writePath, currentPath, fs, pipeVars, configVars, utilVars, nonImportVars>>

\* MkdirAllCreate without the Mkdir call: the names are dropped from the list
MkdirAllCreateNoMkdir ==
    /\ i_pc = "create"
    /\ IF dirsToCreate = << >>
       THEN /\ i_pc' = AfterMkdirAll
            /\ UNCHANGED mkdirVars
       ELSE /\ currentPath' = Join(currentPath, Head(dirsToCreate))
            /\ dirsToCreate' = Tail(dirsToCreate)
            /\ UNCHANGED i_pc
    /\ UNCHANGED <<i_err, fs, faults>>
    /\ UNCHANGED <<header, i_unread, finalTargetPath, writePath, pipeVars, configVars, utilVars, nonImportVars>>

\* MkdirAllCreate that undoes the writes of the import when Mkdir fails
MkdirAllCreateRollsBack ==
    /\ i_pc = "create"
    /\ \/ /\ dirsToCreate = << >>
          /\ i_pc' = AfterMkdirAll
          /\ UNCHANGED <<i_err, mkdirVars, fs, faults>>
       \/ /\ dirsToCreate # << >>
          /\ infoNil
          /\ i_pc' = "panic"
          /\ currentPath' = Join(currentPath, Head(dirsToCreate))
          /\ UNCHANGED <<i_err, dirsToCreate, fs, faults>>
       \/ /\ dirsToCreate # << >>
          /\ ~infoNil
          /\ currentPath' = Join(currentPath, Head(dirsToCreate))
          /\ dirsToCreate' = Tail(dirsToCreate)
          /\ \/ /\ MkdirError(fs, currentPath') = "nil"
                /\ fs' = Put(fs, currentPath', DirNode("unspecified"))
                /\ UNCHANGED <<i_pc, i_err, faults>>
             \/ /\ MkdirError(fs, currentPath') # "nil"
                /\ ImportReturn(MkdirError(fs, currentPath'))
                /\ fs' = fs0
                /\ UNCHANGED faults
             \/ /\ faults > 0
                /\ faults' = faults - 1
                /\ ImportReturn("EIO")
                /\ fs' = fs0
    /\ UNCHANGED <<header, i_unread, finalTargetPath, writePath, pipeVars, configVars, utilVars, nonImportVars>>

\* one iteration of the loop that creates the directories, data_sink.go:229-239.
\* The mode handed to Mkdir is read from the FileInfo of the failed Lookup of
\* line 190: a nil FileInfo panics, any other carries no mode of the entry.
MkdirAllCreate ==
    /\ i_pc = "create"
    /\ \/ /\ dirsToCreate = << >>
          /\ i_pc' = AfterMkdirAll
          /\ UNCHANGED <<i_err, mkdirVars, fs, faults>>
       \/ /\ dirsToCreate # << >>
          /\ infoNil
          /\ i_pc' = "panic"
          /\ currentPath' = Join(currentPath, Head(dirsToCreate))
          /\ UNCHANGED <<i_err, dirsToCreate, fs, faults>>
       \/ /\ dirsToCreate # << >>
          /\ ~infoNil
          /\ currentPath' = Join(currentPath, Head(dirsToCreate))
          /\ dirsToCreate' = Tail(dirsToCreate)
          /\ \/ /\ MkdirError(fs, currentPath') = "nil"
                /\ fs' = Put(fs, currentPath', DirNode("unspecified"))
                /\ UNCHANGED <<i_pc, i_err, faults>>
             \/ /\ MkdirError(fs, currentPath') # "nil"
                /\ ImportReturn(MkdirError(fs, currentPath'))
                /\ UNCHANGED <<fs, faults>>
             \/ /\ faults > 0
                /\ faults' = faults - 1
                /\ ImportReturn("EIO")
                /\ UNCHANGED fs
    /\ UNCHANGED <<header, i_unread, finalTargetPath, writePath, pipeVars, configVars, utilVars, nonImportVars>>

\* createRegularFile that returns nil when the copy of the data fails
createRegularFileIgnoresCopyError ==
    /\ i_pc = "createRegularFile"
    /\ \/ \* Lookup fails with something other than not-exist
          /\ faults > 0
          /\ faults' = faults - 1
          /\ ImportReturn("EIO")
          /\ UNCHANGED <<fs, pipe, i_unread>>
       \/ /\ IsDirAt(fs, writePath)
          /\ ImportReturn("ErrOverwriteDir")
          /\ UNCHANGED <<fs, faults, pipe, i_unread>>
       \/ \* the file is there: it is removed, and err (nil) is returned at line 162
          /\ IsFileAt(fs, writePath)
          /\ \/ /\ fs' = Without(fs, writePath)
                /\ i_pc' = "next"
                /\ UNCHANGED <<i_err, faults>>
             \/ /\ faults > 0
                /\ faults' = faults - 1
                /\ ImportReturn("EIO")
                /\ UNCHANGED fs
          /\ UNCHANGED <<pipe, i_unread>>
       \/ \* the file is not there and OpenFile fails: nil is returned at line 167
          /\ ~Exists(fs, writePath)
          /\ \/ OpenFileError(fs, writePath) # "nil" /\ faults' = faults
             \/ faults > 0 /\ faults' = faults - 1
          /\ i_pc' = "next"
          /\ UNCHANGED <<i_err, fs, pipe, i_unread>>
       \/ \* the file is created and the entry's data copied into it
          /\ ~Exists(fs, writePath)
          /\ OpenFileError(fs, writePath) = "nil"
          /\ IF ~i_unread
             THEN /\ fs' = Put(fs, writePath, FileNode(Empty, header.Perm))
                  /\ i_pc' = "next"
                  /\ UNCHANGED <<i_err, faults, pipe, i_unread>>
             ELSE IF pipe # << >> /\ Head(pipe).chunk = "data"
             THEN \/ /\ fs' = Put(fs, writePath, FileNode(Head(pipe).Bytes, header.Perm))
                     /\ pipe' = Tail(pipe)
                     /\ i_unread' = FALSE
                     /\ i_pc' = "next"
                     /\ UNCHANGED <<i_err, faults>>
                  \/ /\ faults > 0
                     /\ faults' = faults - 1
                     /\ fs' = Put(fs, writePath, FileNode(Empty, header.Perm))
                     /\ i_pc' = "next"
                     /\ UNCHANGED <<i_err, pipe, i_unread>>
             ELSE /\ pipe # << >> \/ pipeW = "closed"
                  /\ fs' = Put(fs, writePath, FileNode(Empty, header.Perm))
                  /\ ImportReturn(IF pipe = << >> /\ pipeErr # "nil"
                                  THEN pipeErr ELSE "ErrUnexpectedEOF")
                  /\ UNCHANGED <<faults, pipe, i_unread>>
    /\ UNCHANGED <<header, finalTargetPath, writePath, mkdirVars, pipeW, pipeErr, configVars, utilVars, nonImportVars>>

\* createRegularFile, data_sink.go:138-176
createRegularFile ==
    /\ i_pc = "createRegularFile"
    /\ \/ \* Lookup fails with something other than not-exist
          /\ faults > 0
          /\ faults' = faults - 1
          /\ ImportReturn("EIO")
          /\ UNCHANGED <<fs, pipe, i_unread>>
       \/ /\ IsDirAt(fs, writePath)
          /\ ImportReturn("ErrOverwriteDir")
          /\ UNCHANGED <<fs, faults, pipe, i_unread>>
       \/ \* the file is there: it is removed, and err (nil) is returned at line 162
          /\ IsFileAt(fs, writePath)
          /\ \/ /\ fs' = Without(fs, writePath)
                /\ i_pc' = "next"
                /\ UNCHANGED <<i_err, faults>>
             \/ /\ faults > 0
                /\ faults' = faults - 1
                /\ ImportReturn("EIO")
                /\ UNCHANGED fs
          /\ UNCHANGED <<pipe, i_unread>>
       \/ \* the file is not there and OpenFile fails: nil is returned at line 167
          /\ ~Exists(fs, writePath)
          /\ \/ OpenFileError(fs, writePath) # "nil" /\ faults' = faults
             \/ faults > 0 /\ faults' = faults - 1
          /\ i_pc' = "next"
          /\ UNCHANGED <<i_err, fs, pipe, i_unread>>
       \/ \* the file is created and the entry's data copied into it
          /\ ~Exists(fs, writePath)
          /\ OpenFileError(fs, writePath) = "nil"
          /\ IF ~i_unread
             THEN /\ fs' = Put(fs, writePath, FileNode(Empty, header.Perm))
                  /\ i_pc' = "next"
                  /\ UNCHANGED <<i_err, faults, pipe, i_unread>>
             ELSE IF pipe # << >> /\ Head(pipe).chunk = "data"
             THEN \/ /\ fs' = Put(fs, writePath, FileNode(Head(pipe).Bytes, header.Perm))
                     /\ pipe' = Tail(pipe)
                     /\ i_unread' = FALSE
                     /\ i_pc' = "next"
                     /\ UNCHANGED <<i_err, faults>>
                  \/ /\ faults > 0
                     /\ faults' = faults - 1
                     /\ fs' = Put(fs, writePath, FileNode(Empty, header.Perm))
                     /\ ImportReturn("EIO")
                     /\ UNCHANGED <<pipe, i_unread>>
             ELSE /\ pipe # << >> \/ pipeW = "closed"
                  /\ fs' = Put(fs, writePath, FileNode(Empty, header.Perm))
                  /\ ImportReturn(IF pipe = << >> /\ pipeErr # "nil"
                                  THEN pipeErr ELSE "ErrUnexpectedEOF")
                  /\ UNCHANGED <<faults, pipe, i_unread>>
    /\ UNCHANGED <<header, finalTargetPath, writePath, mkdirVars, pipeW, pipeErr, configVars, utilVars, nonImportVars>>

Import ==
    \/ ImportStart
    \/ ImportNextEntry
    \/ MkdirAllEnter
    \/ MkdirAllCollect
    \/ MkdirAllCreate
    \/ createRegularFile

----------------------------------------------------------------------------
(* Export: packUsingTarget and findReadTarget (data_source.go) *)

\* byte order of the characters the inputs use, as sort.Strings compares them
CharOrd(c) ==
    CASE c = "/" -> 47 [] c = "a" -> 97 [] c = "b" -> 98 [] c = "c" -> 99
      [] c = "d" -> 100 [] c = "f" -> 102 [] c = "o" -> 111 [] c = "s" -> 115
      [] c = "v" -> 118 [] c = "w" -> 119 [] c = "x" -> 120 [] c = "y" -> 121
      [] OTHER -> 0

LessStr(a, b) ==
    \E i \in 1..Len(b) :
        /\ \A j \in 1..(i - 1) : j <= Len(a) /\ a[j] = b[j]
        /\ (i > Len(a) \/ CharOrd(a[i]) < CharOrd(b[i]))

MinStr(set) == CHOOSE p \in set : \A q \in set : p = q \/ LessStr(p, q)

\* sort.Strings
RECURSIVE SortStrings(_)
SortStringsOf(set) ==
    IF set = {} THEN << >>
    ELSE <<MinStr(set)>> \o SortStrings(set \ {MinStr(set)})

SortStrings(paths) == CHOOSE r \in {SortStringsOf(set) : set \in {paths}} : TRUE

\* data_source.go:170-183
findReadTarget(s) ==
    IF Cardinality(s.Inclusions) = 0 THEN Root
    ELSE SortStrings(s.Inclusions)[1]

\* os.FileInfo.Name(): the base name of the node
BaseName(p) ==
    LET segs == Segments(p)
    IN  IF segs = << >> THEN Root ELSE segs[Len(segs)]

\* Target.ReadDir: the base names of the children of p
ReadDir(tree, p) ==
    SortStrings({BaseName(q) : q \in {r \in DOMAIN tree \ {Root} : ParentOf(r) = Resolve(p)}})

\* tar.FileInfoHeader(info, ""), then the separator a directory gets (line 120)
HeaderOf(tree, p) ==
    LET n == tree[Resolve(p)]
    IN  IF n.kind = "dir"
        THEN Hdr(BaseName(p) \o <<Sep>>, "dir", TRUE, n.perm, 0)
        ELSE Hdr(BaseName(p), "reg", FALSE, n.perm, Len(n.data))

\* the error variable of line 56, which the deferred function of lines 64-75
\* reads: the goroutine assigns only to the err it declares itself (line 80)
OuterErr == "nil"

\* a pipe with a buffer: a write returns at once
CanWriteBuffered == TRUE

\* a write into the pipe returns once the reader has taken it
CanWrite == pipe = << >> \/ pipeR = "closed"

Bump(counts, p) ==
    [q \in DOMAIN counts \cup {p} |->
        IF q = p
        THEN (IF p \in DOMAIN counts
              THEN (IF counts[p] < MaxEmitted THEN counts[p] + 1 ELSE MaxEmitted)
              ELSE 1)
        ELSE counts[q]]

\* data_source.go:61-63 and 77-86
ProducerStart ==
    /\ e_pc = "start"
    /\ targetPath' = findReadTarget(spec)
    /\ readList' = <<Join(e_dir, targetPath')>>
    /\ e_pc' = "loop"
    /\ UNCHANGED <<e_fatal, tw_err, tw_pending, emitted, closeCount, e_iter, fs, faults, pipeVars,
                   configVars, utilVars, importVars, filterVars, consumerVars, volumeVars>>

\* ProducerIter that ends the traversal with an error when the Lookup of the
\* entry fails
ProducerIterLookupFailureIsFatal ==
    /\ e_pc = "loop"
    /\ readList # << >>
    /\ CanWrite
    /\ LET currentRead == Head(readList)
       IN  \/ /\ Excluded(currentRead, spec)
              /\ readList' = Tail(readList)
              /\ UNCHANGED <<e_pc, e_fatal, tw_err, tw_pending, emitted, pipe, faults>>
           \/ /\ ~Excluded(currentRead, spec)
              /\ \/ ~Exists(fs, currentRead) /\ faults' = faults
                 \/ faults > 0 /\ faults' = faults - 1
              /\ e_fatal' = "ENOENT"
              /\ e_pc' = "close"
              /\ UNCHANGED <<readList, tw_err, tw_pending, emitted, pipe>>
           \/ /\ ~Excluded(currentRead, spec)
              /\ Exists(fs, currentRead)
              /\ fs[Resolve(currentRead)].kind = "sock"
              /\ e_fatal' = "ErrFileInfoHeader"
              /\ e_pc' = "close"
              /\ UNCHANGED <<readList, tw_err, tw_pending, emitted, pipe, faults>>
           \/ /\ ~Excluded(currentRead, spec)
              /\ IsDirAt(fs, currentRead)
              /\ faults > 0
              /\ faults' = faults - 1
              /\ e_fatal' = "EIO"
              /\ e_pc' = "close"
              /\ UNCHANGED <<readList, tw_err, tw_pending, emitted, pipe>>
           \/ /\ ~Excluded(currentRead, spec)
              /\ Exists(fs, currentRead)
              /\ fs[Resolve(currentRead)].kind # "sock"
              /\ LET hdr == HeaderOf(fs, currentRead)
                 IN  /\ IF hdr.Typeflag = "dir"
                        THEN /\ Len(readList) + Len(ReadDir(fs, currentRead)) <= MaxReadList
                             /\ readList' = readList \o ReadDir(fs, currentRead)
                        ELSE UNCHANGED readList
                     /\ IF tw_err # "nil"
                        THEN UNCHANGED <<tw_err, tw_pending, emitted, pipe>>
                        ELSE IF tw_pending > 0
                        THEN /\ tw_err' = "ErrMissedBytes"
                             /\ UNCHANGED <<tw_pending, emitted, pipe>>
                        ELSE IF pipeR = "closed"
                        THEN /\ tw_err' = "ErrClosedPipe"
                             /\ UNCHANGED <<tw_pending, emitted, pipe>>
                        ELSE /\ pipe' = <<hdr>>
                             /\ tw_pending' = hdr.Size
                             /\ emitted' = Bump(emitted, Resolve(currentRead))
                             /\ UNCHANGED tw_err
                     /\ e_pc' = IF hdr.Typeflag = "reg" /\ hdr.Size # 0 THEN "copy" ELSE "loop"
              /\ UNCHANGED <<e_fatal, faults>>
    /\ e_iter' = 1 - e_iter
    /\ UNCHANGED targetPath
    /\ UNCHANGED <<closeCount, fs, pipeW, pipeErr, configVars, utilVars, importVars, filterVars,
                   consumerVars, volumeVars>>

\* ProducerIter that lists a directory and puts its children on the work-list
\* without writing the header of the directory
ProducerIterDirWithoutHeader ==
    /\ e_pc = "loop"
    /\ readList # << >>
    /\ CanWrite
    /\ LET currentRead == Head(readList)
       IN  \/ /\ Excluded(currentRead, spec)
              /\ readList' = Tail(readList)
              /\ UNCHANGED <<e_pc, e_fatal, tw_err, tw_pending, emitted, pipe, faults>>
           \/ /\ ~Excluded(currentRead, spec)
              /\ \/ ~Exists(fs, currentRead) /\ faults' = faults
                 \/ faults > 0 /\ faults' = faults - 1
              /\ readList' = Tail(readList)
              /\ UNCHANGED <<e_pc, e_fatal, tw_err, tw_pending, emitted, pipe>>
           \/ /\ ~Excluded(currentRead, spec)
              /\ Exists(fs, currentRead)
              /\ fs[Resolve(currentRead)].kind = "sock"
              /\ e_fatal' = "ErrFileInfoHeader"
              /\ e_pc' = "close"
              /\ UNCHANGED <<readList, tw_err, tw_pending, emitted, pipe, faults>>
           \/ /\ ~Excluded(currentRead, spec)
              /\ IsDirAt(fs, currentRead)
              /\ faults > 0
              /\ faults' = faults - 1
              /\ e_fatal' = "EIO"
              /\ e_pc' = "close"
              /\ UNCHANGED <<readList, tw_err, tw_pending, emitted, pipe>>
           \/ /\ ~Excluded(currentRead, spec)
              /\ Exists(fs, currentRead)
              /\ fs[Resolve(currentRead)].kind # "sock"
              /\ LET hdr == HeaderOf(fs, currentRead)
                 IN  /\ IF hdr.Typeflag = "dir"
                        THEN /\ Len(readList) + Len(ReadDir(fs, currentRead)) <= MaxReadList
                             /\ readList' = readList \o ReadDir(fs, currentRead)
                        ELSE UNCHANGED readList
                     /\ IF tw_err # "nil" \/ hdr.Typeflag = "dir"
                        THEN UNCHANGED <<tw_err, tw_pending, emitted, pipe>>
                        ELSE IF tw_pending > 0
                        THEN /\ tw_err' = "ErrMissedBytes"
                             /\ UNCHANGED <<tw_pending, emitted, pipe>>
                        ELSE IF pipeR = "closed"
                        THEN /\ tw_err' = "ErrClosedPipe"
                             /\ UNCHANGED <<tw_pending, emitted, pipe>>
                        ELSE /\ pipe' = <<hdr>>
                             /\ tw_pending' = hdr.Size
                             /\ emitted' = Bump(emitted, Resolve(currentRead))
                             /\ UNCHANGED tw_err
                     /\ e_pc' = IF hdr.Typeflag = "reg" /\ hdr.Size # 0 THEN "copy" ELSE "loop"
              /\ UNCHANGED <<e_fatal, faults>>
    /\ e_iter' = 1 - e_iter
    /\ UNCHANGED targetPath
    /\ UNCHANGED <<closeCount, fs, pipeW, pipeErr, configVars, utilVars, importVars, filterVars,
                   consumerVars, volumeVars>>

\* one iteration of the loop over the work-list, up to the header written,
\* data_source.go:89-140; an entry that was processed stays at the head
ProducerIter ==
    /\ e_pc = "loop"
    /\ readList # << >>
    /\ CanWrite
    /\ LET currentRead == Head(readList)
       IN  \/ /\ Excluded(currentRead, spec)
              /\ readList' = Tail(readList)
              /\ UNCHANGED <<e_pc, e_fatal, tw_err, tw_pending, emitted, pipe, faults>>
           \/ /\ ~Excluded(currentRead, spec)
              /\ \/ ~Exists(fs, currentRead) /\ faults' = faults
                 \/ faults > 0 /\ faults' = faults - 1
              /\ readList' = Tail(readList)
              /\ UNCHANGED <<e_pc, e_fatal, tw_err, tw_pending, emitted, pipe>>
           \/ /\ ~Excluded(currentRead, spec)
              /\ Exists(fs, currentRead)
              /\ fs[Resolve(currentRead)].kind = "sock"
              /\ e_fatal' = "ErrFileInfoHeader"
              /\ e_pc' = "close"
              /\ UNCHANGED <<readList, tw_err, tw_pending, emitted, pipe, faults>>
           \/ /\ ~Excluded(currentRead, spec)
              /\ IsDirAt(fs, currentRead)
              /\ faults > 0
              /\ faults' = faults - 1
              /\ e_fatal' = "EIO"
              /\ e_pc' = "close"
              /\ UNCHANGED <<readList, tw_err, tw_pending, emitted, pipe>>
           \/ /\ ~Excluded(currentRead, spec)
              /\ Exists(fs, currentRead)
              /\ fs[Resolve(currentRead)].kind # "sock"
              /\ LET hdr == HeaderOf(fs, currentRead)
                 IN  /\ IF hdr.Typeflag = "dir"
                        THEN /\ Len(readList) + Len(ReadDir(fs, currentRead)) <= MaxReadList
                             /\ readList' = readList \o ReadDir(fs, currentRead)
                        ELSE UNCHANGED readList
                     /\ IF tw_err # "nil"
                        THEN UNCHANGED <<tw_err, tw_pending, emitted, pipe>>
                        ELSE IF tw_pending > 0
                        THEN /\ tw_err' = "ErrMissedBytes"
                             /\ UNCHANGED <<tw_pending, emitted, pipe>>
                        ELSE IF pipeR = "closed"
                        THEN /\ tw_err' = "ErrClosedPipe"
                             /\ UNCHANGED <<tw_pending, emitted, pipe>>
                        ELSE /\ pipe' = <<hdr>>
                             /\ tw_pending' = hdr.Size
                             /\ emitted' = Bump(emitted, Resolve(currentRead))
                             /\ UNCHANGED tw_err
                     /\ e_pc' = IF hdr.Typeflag = "reg" /\ hdr.Size # 0 THEN "copy" ELSE "loop"
              /\ UNCHANGED <<e_fatal, faults>>
    /\ e_iter' = 1 - e_iter
    /\ UNCHANGED targetPath
    /\ UNCHANGED <<closeCount, fs, pipeW, pipeErr, configVars, utilVars, importVars, filterVars,
                   consumerVars, volumeVars>>

\* the read of a regular file's data, data_source.go:142-162; what the
\* closure returns is not looked at
ProducerCopy ==
    /\ e_pc = "copy"
    /\ CanWrite
    /\ LET currentRead == Head(readList)
       IN  \/ \* Open is refused: permission denied
              /\ fs[Resolve(currentRead)].perm = "0000"
              /\ UNCHANGED <<tw_err, tw_pending, pipe, faults>>
           \/ \* Open or the copy fails for another reason
              /\ faults > 0
              /\ faults' = faults - 1
              /\ UNCHANGED <<tw_err, tw_pending, pipe>>
           \/ /\ fs[Resolve(currentRead)].perm # "0000"
              /\ IF tw_err # "nil" \/ tw_pending = 0
                 THEN UNCHANGED <<tw_err, tw_pending, pipe>>
                 ELSE IF pipeR = "closed"
                 THEN /\ tw_err' = "ErrClosedPipe"
                      /\ UNCHANGED <<tw_pending, pipe>>
                 ELSE /\ pipe' = <<Data(fs[Resolve(currentRead)].data)>>
                      /\ tw_pending' = 0
                      /\ UNCHANGED tw_err
              /\ UNCHANGED faults
    /\ e_pc' = "loop"
    /\ UNCHANGED <<readList, e_fatal, emitted, closeCount, e_iter, targetPath, fs, pipeW, pipeErr, configVars, utilVars,
                   importVars, filterVars, consumerVars, volumeVars>>

\* what tw.Close() returns
TarWriterCloseError ==
    IF tw_err # "nil" THEN tw_err
    ELSE IF tw_pending > 0 THEN "ErrMissedBytes"
    ELSE IF pipeR = "closed" THEN "ErrClosedPipe"
    ELSE "nil"

\* the deferred function, data_source.go:64-75: it runs when the loop ends
\* and when the goroutine returns on an error
ProducerClose ==
    /\ e_pc = "close" \/ (e_pc = "loop" /\ readList = << >>)
    /\ CanWrite
    /\ pipeW' = "closed"
    /\ pipeErr' = IF OuterErr = "nil" THEN TarWriterCloseError ELSE OuterErr
    /\ closeCount' = closeCount + 1
    /\ e_pc' = "done"
    /\ UNCHANGED <<readList, e_fatal, tw_err, tw_pending, emitted, e_iter, targetPath, fs, faults, pipe,
                   configVars, utilVars, importVars, filterVars, consumerVars, volumeVars>>

Producer ==
    \/ ProducerStart
    \/ ProducerIter
    \/ ProducerCopy
    \/ ProducerClose

\* the caller reads the stream packUsingTarget returned (data_source.go:60, 165)
ConsumerRead ==
    /\ i_pc = "idle"
    /\ pipeR = "open"
    /\ c_end = "none"
    /\ \/ /\ pipe # << >>
          /\ pipe' = Tail(pipe)
          /\ UNCHANGED c_end
       \/ /\ pipe = << >>
          /\ pipeW = "closed"
          /\ c_end' = IF pipeErr = "nil" THEN "EOF" ELSE pipeErr
          /\ UNCHANGED pipe
    /\ UNCHANGED <<pipeR, pipeW, pipeErr, tw_err, fs, faults, configVars, utilVars, importVars, filterVars,
                   e_pc, readList, e_fatal, tw_pending, emitted, closeCount, e_iter, targetPath, volumeVars>>

\* the caller closes the read side before the end of the stream; a write in
\* flight fails
ConsumerClose ==
    /\ i_pc = "idle"
    /\ e_pc # "idle"
    /\ pipeR = "open"
    /\ c_end = "none"
    /\ pipeR' = "closed"
    /\ pipe' = << >>
    /\ tw_err' = IF pipe # << >> /\ tw_err = "nil" THEN "ErrClosedPipe" ELSE tw_err
    /\ UNCHANGED <<c_end, pipeW, pipeErr, fs, faults, configVars, utilVars, importVars, filterVars,
                   e_pc, readList, e_fatal, tw_pending, emitted, closeCount, e_iter, targetPath, volumeVars>>

----------------------------------------------------------------------------
(* VolumeStore.Import and NewDataSink (import.go) *)

\* import.go:26-29 and 35-53
NewDataSink ==
    /\ v_pc \in {"call", "open"}
    /\ \/ /\ v_pc' = "returned"
          /\ v_err' = "ErrMount"
          /\ UNCHANGED <<mounts, i_pc>>
       \/ /\ mounts' = mounts + 1
          /\ v_pc' = IF v_pc = "call" THEN "import" ELSE "held"
          /\ i_pc' = "start"
          /\ UNCHANGED v_err
    /\ UNCHANGED <<unmounts, unmountErr, close_ret, i_err, header, i_unread, finalTargetPath, writePath, mkdirVars,
                   fs, faults, pipeVars, configVars, utilVars, filterVars, exportVars, consumerVars>>

\* import.go:31: what the sink's Import returned is returned
VolumeStoreImportReturn ==
    /\ v_pc = "import"
    /\ i_pc = "done"
    /\ v_pc' = "returned"
    /\ v_err' = i_err
    /\ UNCHANGED <<mounts, unmounts, unmountErr, close_ret, importVars, fs, faults, pipeVars, configVars, utilVars, filterVars,
                   exportVars, consumerVars>>

\* Close that returns what the unmount returned
NFSDataSinkCloseReturnsUnmountError ==
    /\ v_pc = "held"
    /\ i_pc = "done"
    /\ unmounts' = unmounts + 1
    /\ unmountErr' \in {"nil", "ErrUnmount"}
    /\ close_ret' = unmountErr'
    /\ v_pc' = "closed"
    /\ UNCHANGED <<v_err, mounts, importVars, fs, faults, pipeVars, configVars, utilVars, filterVars,
                   exportVars, consumerVars>>

\* NFSDataSink.Close (data_sink.go:45-50) running the cleanFunc of
\* import.go:41-44: the unmount's error is logged, nil is returned
NFSDataSinkClose ==
    /\ v_pc = "held"
    /\ i_pc = "done"
    /\ unmounts' = unmounts + 1
    /\ unmountErr' \in {"nil", "ErrUnmount"}
    /\ close_ret' = "nil"
    /\ v_pc' = "closed"
    /\ UNCHANGED <<v_err, mounts, importVars, fs, faults, pipeVars, configVars, utilVars, filterVars,
                   exportVars, consumerVars>>

----------------------------------------------------------------------------
(* Inputs *)

FilterPaths == {Root, pA, pAB, pABF, pAF, pAb, pC, pCF, pF}

FilterSpecs ==
    {s \in {FilterSpec(t, i, e, Root, Empty) :
                t \in {Root, pA}, i \in SUBSET {pAB, pAs, pCF}, e \in SUBSET {pA, pC, pAB}} :
        s.Inclusions \cap s.Exclusions = {}}

\* the entries a tar stream is drawn from, directories before their children
MasterStream ==
    << <<Hdr(pA, "dir", FALSE, "0755", 0)>>,
       <<Hdr(pAB, "dir", FALSE, "0700", 0)>>,
       <<Hdr(pABF, "reg", FALSE, "0644", 1), Data(<<"x">>)>>,
       <<Hdr(pAF, "reg", FALSE, "0644", 0)>>,
       <<Hdr(pC, "dir", FALSE, "0755", 0)>>,
       <<Hdr(pCF, "reg", TRUE, "0644", 1), Data(<<"y">>)>>,
       <<Hdr(pAb, "symlink", FALSE, "0777", 0)>> >>

RECURSIVE Flatten(_, _, _)
Flatten(seq, keep, i) ==
    IF i > Len(seq) THEN << >>
    ELSE (IF i \in keep THEN seq[i] ELSE << >>) \o Flatten(seq, keep, i + 1)

\* the streams of at most MaxEntries entries, in the order of MasterStream
WholeStreams ==
    {Flatten(MasterStream, keep, 1) :
        keep \in {k \in SUBSET (1..Len(MasterStream)) : Cardinality(k) <= MaxEntries}}

\* those, and those cut short before their last chunk
Streams ==
    WholeStreams \cup {SubSeq(st, 1, Len(st) - 1) : st \in WholeStreams \ {<< >>}}

ImportSpecs ==
    {FilterSpec(Root, i, e, r, Empty) :
        i \in SUBSET {pAB}, e \in SUBSET {pA, pC}, r \in {Root, pD}}
    \cup {FilterSpec(pA, {}, {}, Root, st) : st \in {Empty, pA}}
    \cup {FilterSpec(Root, {}, {}, pD, pA)}
    \cup {FilterSpec(Root, {}, {}, Empty, Empty)}

BareBackend == (Root :> DirNode("0755"))

\* a backend holding only the (empty) volume directory
FreshVolume(vol) == Put(BareBackend, vol, DirNode("0755"))

\* the backends an import may find: with or without the volume, the rebase
\* directory, and something already at the place of an entry
ImportBackends ==
    {BareBackend, FreshVolume(pV),
     Put(FreshVolume(pV), pV \o pD, DirNode("0755")),
     Put(FreshVolume(pV), pV \o pA, FileNode(<<"o">>, "0600")),
     Put(FreshVolume(pV), pV \o pA, DirNode("0711")),
     Put(FreshVolume(pV), pV \o pC, DirNode("0755")),
     Put(Put(FreshVolume(pV), pV \o pA, DirNode("0755")), pV \o pAF, DirNode("0755")),
     Put(Put(FreshVolume(pV), pV \o pA, DirNode("0755")), pV \o pAF, FileNode(<<"o">>, "0600"))}

\* the nodes an exported tree is drawn from, by their path below the root of
\* the tree
MasterTree ==
    (pA :> DirNode("0755")) @@ (pAB :> DirNode("0700")) @@
    (pABF :> FileNode(<<"x">>, "0644")) @@ (pAF :> FileNode(<<"y">>, "0000")) @@
    (pC :> DirNode("0755")) @@ (pF :> FileNode(<<"x">>, "0644")) @@
    (pG :> FileNode(<<"z">>, "0000")) @@
    (<<"/", "s">> :> [kind |-> "sock", data |-> Empty, perm |-> "0755"])

\* the sets of at most MaxTreeNodes nodes that hold the parent of each node
TreeShapes ==
    {k \in SUBSET DOMAIN MasterTree :
        /\ Cardinality(k) <= MaxTreeNodes
        /\ \A q \in k : ParentOf(q) = Root \/ ParentOf(q) \in k}

\* the tree of shape k below directory d of an otherwise bare backend
TreeAt(d, k) ==
    LET base == IF d = Root THEN BareBackend ELSE FreshVolume(d)
        at(q) == IF d = Root THEN q ELSE d \o q
    IN  [r \in DOMAIN base \cup {at(q) : q \in k} |->
            IF r \in DOMAIN base THEN base[r]
            ELSE MasterTree[CHOOSE q \in k : at(q) = r]]

ExportSpecs ==
    {FilterSpec(Root, i, e, Root, Empty) : i \in SUBSET {pAB}, e \in SUBSET {pA, pC}}
    \cup {FilterSpec(pA, {}, {}, Root, Empty), FilterSpec(Root, {pF}, {}, Root, Empty)}

----------------------------------------------------------------------------
(* Initial conditions of the parts *)

CreateIdle ==
    /\ specMap = << >>
    /\ created = << >>
    /\ c_err = "none"

FilterIdle ==
    /\ f_path = Empty
    /\ f_result = "none"
    /\ CreateIdle

ImportAt(pc) ==
    /\ i_pc = pc
    /\ i_err = "nil"
    /\ header = NoHeader
    /\ i_unread = FALSE
    /\ finalTargetPath = Empty
    /\ writePath = Empty
    /\ currentPath = Empty
    /\ dirsToCreate = << >>

ExportAt(pc) ==
    /\ e_pc = pc
    /\ readList = << >>
    /\ e_fatal = "nil"
    /\ tw_err = "nil"
    /\ tw_pending = 0
    /\ emitted = << >>
    /\ closeCount = 0
    /\ e_iter = 0
    /\ targetPath = Empty
    /\ pipeR = "open"
    /\ c_end = "none"

VolumeAt(pc) ==
    /\ v_pc = pc
    /\ v_err = "nil"
    /\ mounts = 0
    /\ unmounts = 0
    /\ unmountErr = "none"
    /\ close_ret = "none"

RetryIdle ==
    /\ ctx = "background"
    /\ r_pc = "idle"
    /\ r_calls = 0
    /\ r_result = "none"
    /\ r_ret = "none"
    /\ backoffFactor = 1
    /\ sleepValue = 0
    /\ r_select = "none"

SaveIdle ==
    /\ s_pc = "idle"
    /\ s_data = "none"
    /\ s_err = "nil"
    /\ tmpfile = "none"
    /\ dstfile = "none"
    /\ mvCalls = 0
    /\ mvErr = "none"

UtilIdle == RetryIdle /\ SaveIdle

\* a stream handed in whole, as a reader over bytes that are all there
GivenStream ==
    /\ pipe \in Streams
    /\ stream0 = pipe
    /\ pipeW = "closed"
    /\ pipeErr \in {"nil", "ErrHeader"}

\* the stream of a packUsingTarget call
PipeStream ==
    /\ pipe = << >>
    /\ stream0 = << >>
    /\ pipeW = "open"
    /\ pipeErr = "nil"

vars == <<spec, f_path, f_result, specMap, created, c_err, fs, fs0, faults, infoNil, pipe, pipeW, pipeErr, stream0,
          volumePath, i_pc, i_err, header, i_unread, finalTargetPath, writePath,
          currentPath, dirsToCreate, e_dir, e_pc, readList, e_fatal, tw_err, tw_pending,
          emitted, closeCount, e_iter, targetPath, pipeR, c_end, v_pc, v_err, mounts, unmounts,
          unmountErr, close_ret, ctx, r_pc, r_calls, r_result, r_ret, backoffFactor, sleepValue,
          r_select, s_pc, s_data, s_err, tmpfile, dstfile, mvCalls, mvErr>>

----------------------------------------------------------------------------
(* The filter alone: Excluded applied to one path under one FilterSpec *)

FilterInit ==
    /\ UtilIdle
    /\ spec \in FilterSpecs
    /\ f_path \in FilterPaths
    /\ f_result = "none"
    /\ CreateIdle
    /\ fs = BareBackend
    /\ fs0 = fs
    /\ faults = 0
    /\ infoNil = FALSE
    /\ pipe = << >>
    /\ stream0 = << >>
    /\ pipeW = "closed"
    /\ pipeErr = "nil"
    /\ volumePath = pV
    /\ e_dir = pV
    /\ ImportAt("idle")
    /\ ExportAt("idle")
    /\ VolumeAt("idle")

ApplyExcluded ==
    /\ f_result = "none"
    /\ f_path # Empty
    /\ f_result' = IF Excluded(f_path, spec) THEN "excluded" ELSE "included"
    /\ UNCHANGED <<f_path, specMap, created, c_err, fs, faults, pipeVars, importVars,
                   configVars, utilVars, exportVars, consumerVars, volumeVars>>

FilterNext == ApplyExcluded

\* the role mappings over these paths: every path absent or in one role
MapPaths == {Root, pA, pAB, pC}

SpecMaps == UNION {[d -> Roles] : d \in SUBSET MapPaths}

\* the construction alone: CreateFilterSpec applied to one role mapping
CreateInit ==
    /\ UtilIdle
    /\ specMap \in SpecMaps
    /\ created = << >>
    /\ c_err = "none"
    /\ spec = FilterSpec(Root, {}, {}, Root, Empty)
    /\ f_path = Empty
    /\ f_result = "none"
    /\ fs = BareBackend
    /\ fs0 = fs
    /\ faults = 0
    /\ infoNil = FALSE
    /\ pipe = << >>
    /\ stream0 = << >>
    /\ pipeW = "closed"
    /\ pipeErr = "nil"
    /\ volumePath = pV
    /\ e_dir = pV
    /\ ImportAt("idle")
    /\ ExportAt("idle")
    /\ VolumeAt("idle")

ApplyCreateFilterSpec ==
    /\ c_err = "none"
    /\ LET r == CreateFilterSpec(specMap)
       IN  /\ c_err' = r.err
           /\ created' = r.spec
    /\ UNCHANGED <<specMap, f_path, f_result, fs, faults, pipeVars, importVars, configVars, utilVars,
                   exportVars, consumerVars, volumeVars>>

CreateNext == ApplyCreateFilterSpec

SpecCreate == CreateInit /\ [][CreateNext]_vars

SpecFilter == FilterInit /\ [][FilterNext]_vars

----------------------------------------------------------------------------
(* Import alone: unpackUsingTarget on a given stream and backend *)

ImportInputs ==
    /\ spec \in ImportSpecs
    /\ fs \in ImportBackends
    /\ fs0 = fs
    /\ faults = MaxFaults
    /\ infoNil \in BOOLEAN
    /\ GivenStream
    /\ volumePath = pV
    /\ e_dir = pV
    /\ FilterIdle
    /\ ExportAt("idle")

ImportInit ==
    /\ UtilIdle
    /\ ImportInputs
    /\ ImportAt("start")
    /\ VolumeAt("idle")

ImportNext == Import

SpecImport == ImportInit /\ [][ImportNext]_vars

----------------------------------------------------------------------------
(* createRegularFile alone: the call of data_sink.go:128 for an entry whose
   directory is there *)

\* the entries createRegularFile is called for: any that is not a directory
FileCallEntries ==
    {k \in 1..Len(MasterStream) : MasterStream[k][1].Typeflag # "dir"}

\* unpackUsingTarget has read the header of entry k of MasterStream, entry n
\* follows it in the stream (0: none), and createRegularFile is called
RegularFileCall(k, n) ==
    /\ stream0 = MasterStream[k] \o (IF n = 0 THEN << >> ELSE MasterStream[n])
    /\ header = stream0[1]
    /\ pipe = Tail(stream0)
    /\ i_unread = (header.Size > 0)
    /\ finalTargetPath = Join(volumePath, spec.RebasePath)
    /\ writePath = Join(finalTargetPath, TrimPrefix(header.Name, spec.StripPath))
    /\ ~Excluded(header.Name, spec)

RegularFileInit ==
    /\ UtilIdle
    /\ spec \in {s \in ImportSpecs : s.RebasePath # Empty}
    /\ fs \in {b \in ImportBackends : Exists(b, pV)}
    /\ fs0 = fs
    /\ faults = MaxFaults
    /\ infoNil = FALSE
    /\ volumePath = pV
    /\ e_dir = pV
    /\ pipeW = "closed"
    /\ pipeErr = "nil"
    /\ \E k \in FileCallEntries, n \in {0, 1, 5} : RegularFileCall(k, n)
    /\ i_pc = "createRegularFile"
    /\ i_err = "nil"
    /\ currentPath = Empty
    /\ dirsToCreate = << >>
    /\ FilterIdle
    /\ ExportAt("idle")
    /\ VolumeAt("idle")

RegularFileNext ==
    \/ createRegularFile
    \/ ImportNextEntry

SpecRegularFile == RegularFileInit /\ [][RegularFileNext]_vars

----------------------------------------------------------------------------
(* Export alone: packUsingTarget with a caller reading the stream *)

ExportInit ==
    /\ UtilIdle
    /\ spec \in ExportSpecs
    /\ e_dir \in {Root, pV}
    /\ fs \in {TreeAt(e_dir, k) : k \in TreeShapes}
    /\ fs0 = fs
    /\ faults = MaxFaults
    /\ infoNil = FALSE
    /\ PipeStream
    /\ volumePath = pV
    /\ FilterIdle
    /\ ImportAt("idle")
    /\ ExportAt("start")
    /\ VolumeAt("idle")

ExportNext ==
    \/ Producer
    \/ ConsumerRead
    \/ ConsumerClose

SpecExport == ExportInit /\ [][ExportNext]_vars

\* the producer goroutine runs whenever it can, and so does a caller that
\* reads the stream; nothing obliges the caller to close it early
FairSpecExport ==
    /\ ExportInit
    /\ [][ExportNext]_vars
    /\ WF_vars(Producer)
    /\ WF_vars(ConsumerRead)

----------------------------------------------------------------------------
(* VolumeStore.Import: the sink is made, then the import runs *)

VolumeInit ==
    /\ UtilIdle
    /\ ImportInputs
    /\ ImportAt("idle")
    /\ VolumeAt("call")

VolumeNext ==
    \/ NewDataSink
    \/ Import
    \/ VolumeStoreImportReturn

SpecVolume == VolumeInit /\ [][VolumeNext]_vars

----------------------------------------------------------------------------
(* A caller that holds the sink: NewDataSink, Import, then Close *)

SinkSessionInit ==
    /\ UtilIdle
    /\ ImportInputs
    /\ ImportAt("idle")
    /\ VolumeAt("open")

SinkSessionNext ==
    \/ NewDataSink
    \/ Import
    \/ NFSDataSinkClose

SpecSinkSession == SinkSessionInit /\ [][SinkSessionNext]_vars

----------------------------------------------------------------------------
(* Import or Export: one transfer of either kind *)

TransferInit == ImportInit \/ ExportInit

TransferNext ==
    \/ Import
    \/ ExportNext

SpecTransfer == TransferInit /\ [][TransferNext]_vars

----------------------------------------------------------------------------
(* Export piped into Import: volume pV is packed and the stream is unpacked
   into the empty volume pW of the same backend *)

EmptyFilter == FilterSpec(Root, {}, {}, Root, Empty)

\* the trees of directories and regular files
PlainTreeShapes == {k \in TreeShapes : \A q \in k : MasterTree[q].kind # "sock"}

RoundTripInit ==
    /\ UtilIdle
    /\ spec = EmptyFilter
    /\ e_dir = pV
    /\ volumePath = pW
    /\ fs \in {Put(TreeAt(pV, k), pW, DirNode("0755")) : k \in PlainTreeShapes}
    /\ fs0 = fs
    /\ faults = MaxFaults
    /\ infoNil \in BOOLEAN
    /\ PipeStream
    /\ FilterIdle
    /\ ImportAt("start")
    /\ ExportAt("start")
    /\ VolumeAt("idle")

\* the steps of packUsingTarget this pipeline can take: the children of the
\* volume directory are looked up by base name from the root of the mount,
\* where they are not, so no file is ever opened
RoundTripProducer ==
    \/ ProducerStart
    \/ ProducerIter
    \/ ProducerClose

\* the steps of unpackUsingTarget this pipeline can take: the stream holds
\* directory headers only
RoundTripImport ==
    \/ ImportStart
    \/ ImportNextEntry
    \/ MkdirAllEnter
    \/ MkdirAllCollect
    \/ MkdirAllCreate

RoundTripNext ==
    \/ RoundTripProducer
    \/ RoundTripImport

SpecRoundTrip == RoundTripInit /\ [][RoundTripNext]_vars

\* the producer goroutine and the importing caller both run whenever they can
FairSpecRoundTrip ==
    /\ RoundTripInit
    /\ [][RoundTripNext]_vars
    /\ WF_vars(RoundTripProducer)
    /\ WF_vars(RoundTripImport)

\* the two steps RoundTripNext leaves out are never enabled
RoundTripNoFileStep == ~ENABLED ProducerCopy /\ ~ENABLED createRegularFile

----------------------------------------------------------------------------
(* Retry and WaitForResult (pkg/vsphere/tasks/waiter.go) *)

maxBackoffFactor == 16

\* what the operation f and the task's own WaitForResult can come to:
\*   "ok"             the task succeeded
\*   "invokeErr"      f returned an error
\*   "nilInfo"        the task's wait returned an error and no TaskInfo
\*   "noTaskError"    ... an error and a TaskInfo whose Error is nil
\*   "noFault"        ... a TaskInfo whose Error carries no Fault
\*   "TaskInProgress" ... a TaskInfo whose Error carries a TaskInProgressFault
\*   "otherFault"     ... a TaskInfo whose Error carries any other fault
TaskOutcomes ==
    {"ok", "invokeErr", "nilInfo", "noTaskError", "noFault", "TaskInProgress", "otherFault"}

\* WaitForResult: the TaskInfo and the TaskError it returns, or the panic of
\* info.Error on a nil info (line 88); on every error the TaskInfo is nil
WaitForResult(o) ==
    CASE o = "ok" ->
            [panic |-> FALSE, taskInfo |-> "info", err |-> "nil", taskError |-> "nil"]
      [] o = "invokeErr" ->
            [panic |-> FALSE, taskInfo |-> "nil", err |-> "TaskError", taskError |-> "nil"]
      [] o = "nilInfo" ->
            [panic |-> TRUE, taskInfo |-> "nil", err |-> "nil", taskError |-> "nil"]
      [] o = "noTaskError" ->
            [panic |-> FALSE, taskInfo |-> "nil", err |-> "TaskError", taskError |-> "nil"]
      [] OTHER ->
            [panic |-> FALSE, taskInfo |-> "nil", err |-> "TaskError", taskError |-> o]

\* r.Int63n(100) + 50: the least and the greatest value
Jitter == {50, 149}

\* Retry returns ret
RetryReturn(ret) ==
    /\ r_pc' = "done"
    /\ r_ret' = ret

\* Retry does not return: a nil pointer is dereferenced
RetryPanic ==
    /\ r_pc' = "panic"
    /\ UNCHANGED r_ret

\* the select of a Retry that sleeps but does not double backoffFactor
RetrySleepKeepsBackoff ==
    /\ r_pc = "sleep"
    /\ \/ /\ r_select' = "timer"
          /\ UNCHANGED backoffFactor
          /\ RetryPanic
       \/ /\ ctx = "done"
          /\ r_select' = "ctx"
          /\ RetryReturn("ctxErr")
          /\ UNCHANGED backoffFactor
    /\ UNCHANGED <<ctx, r_calls, r_result, sleepValue, saveVars, engineVars>>

\* one iteration of Retry's loop up to its select (lines 107-121, 135-140)
RetryCall ==
    /\ r_pc = "call"
    /\ r_calls < MaxCalls
    /\ \E o \in TaskOutcomes :
          LET w == WaitForResult(o)
          IN  /\ r_calls' = r_calls + 1
              /\ r_result' = o
              /\ IF w.panic
                   THEN RetryPanic /\ UNCHANGED sleepValue
                 ELSE IF w.err = "nil"
                   THEN RetryReturn(w.taskInfo) /\ UNCHANGED sleepValue
                 ELSE IF w.taskError = "nil"
                   \* line 113 reads taskInfo.Task of the nil taskInfo
                   THEN RetryPanic /\ UNCHANGED sleepValue
                 ELSE IF w.taskError = "noFault"
                   THEN RetryReturn("TaskError") /\ UNCHANGED sleepValue
                 ELSE IF w.taskError = "TaskInProgress"
                   \* the type assertion holds: the body of line 120 is skipped
                   THEN UNCHANGED <<r_pc, r_ret, sleepValue>>
                 ELSE /\ r_pc' = "sleep"
                      /\ \E j \in Jitter : sleepValue' = backoffFactor * j
                      /\ UNCHANGED r_ret
    /\ UNCHANGED <<ctx, backoffFactor, r_select, saveVars, engineVars>>

\* the select of lines 122-132 and the log call of line 133, which reads
\* taskInfo.Task of the nil taskInfo
RetrySleep ==
    /\ r_pc = "sleep"
    /\ \/ /\ r_select' = "timer"
          /\ backoffFactor' = IF backoffFactor * 2 > maxBackoffFactor
                                THEN maxBackoffFactor
                                ELSE backoffFactor * 2
          /\ RetryPanic
       \/ /\ ctx = "done"
          /\ r_select' = "ctx"
          /\ RetryReturn("ctxErr")
          /\ UNCHANGED backoffFactor
    /\ UNCHANGED <<ctx, r_calls, r_result, sleepValue, saveVars, engineVars>>

\* the caller's context is cancelled or its deadline passes while Retry runs
CtxDone ==
    /\ ctx = "live"
    /\ r_pc \in {"call", "sleep"}
    /\ ctx' = "done"
    /\ UNCHANGED <<r_pc, r_calls, r_result, r_ret, backoffFactor, sleepValue, r_select,
                   saveVars, engineVars>>

\* the transfer engine is not in use
EngineIdle ==
    /\ spec = FilterSpec(Root, {}, {}, Root, Empty)
    /\ fs = BareBackend
    /\ fs0 = fs
    /\ faults = 0
    /\ infoNil = FALSE
    /\ volumePath = pV
    /\ e_dir = pV
    /\ PipeStream
    /\ FilterIdle
    /\ ImportAt("idle")
    /\ ExportAt("idle")
    /\ VolumeAt("idle")

RetryInit ==
    /\ EngineIdle
    /\ SaveIdle
    /\ ctx \in {"background", "live"}
    /\ r_pc = "call"
    /\ r_calls = 0
    /\ r_result = "none"
    /\ r_ret = "none"
    /\ backoffFactor = 1
    /\ sleepValue = 0
    /\ r_select = "none"

RetryNext ==
    \/ RetryCall
    \/ RetrySleep
    \/ CtxDone

SpecRetry == RetryInit /\ [][RetryNext]_vars

----------------------------------------------------------------------------
(* dsBackend.Save (pkg/kvstore/backend.go) *)

\* isFileFault: the error is a vim fault of type FileNotFound
isFileFault(err) == err = "FileNotFound"

\* what a failed d.ds.Mv returns: a FileNotFound fault, another vim fault, or
\* an error that is no vim fault
MvErrors == {"FileNotFound", "otherFault", "otherErr"}

\* what is saved
SaveData == {"d1", "d2"}

\* Save returns e
SaveReturn(e) ==
    /\ s_pc' = "done"
    /\ s_err' = e

\* d.ds.Mv(ctx, tmpfile, path) succeeds
MvDone ==
    /\ dstfile' = tmpfile
    /\ tmpfile' = "none"
    /\ mvErr' = "nil"

\* d.ds.Mv(ctx, tmpfile, path) fails with e
MvFailed(e) ==
    /\ mvErr' = e
    /\ UNCHANGED <<tmpfile, dstfile>>

\* lines 50-54: the upload to the ephemeral file; one that fails may leave a
\* part of the content behind
SaveUpload ==
    /\ s_pc = "upload"
    /\ \/ /\ tmpfile' = s_data
          /\ s_pc' = "mv"
          /\ UNCHANGED s_err
       \/ /\ tmpfile' \in {tmpfile, "part"}
          /\ SaveReturn("uploadErr")
    /\ UNCHANGED <<s_data, dstfile, mvCalls, mvErr, retryVars, engineVars>>

\* the first move of a Save that takes every error of it for a FileNotFound
SaveMvRetriesEveryError ==
    /\ s_pc = "mv"
    /\ mvCalls' = mvCalls + 1
    /\ \/ /\ MvDone
          /\ SaveReturn("nil")
       \/ \E e \in MvErrors :
             /\ MvFailed(e)
             /\ s_pc' = "retry"
             /\ UNCHANGED s_err
    /\ UNCHANGED <<s_data, retryVars, engineVars>>

\* lines 56-62, 73-76: the first move
SaveMv ==
    /\ s_pc = "mv"
    /\ mvCalls' = mvCalls + 1
    /\ \/ /\ MvDone
          /\ SaveReturn("nil")
       \/ \E e \in MvErrors :
             /\ MvFailed(e)
             /\ IF isFileFault(e)
                  THEN s_pc' = "retry" /\ UNCHANGED s_err
                  ELSE SaveReturn(e)
    /\ UNCHANGED <<s_data, retryVars, engineVars>>

\* lines 64-71: one call of moveOperation by retry.Do, which calls it again
\* while isFileFault accepts its error and it has not given up
SaveRetryMv ==
    /\ s_pc = "retry"
    /\ mvCalls < MaxMoves
    /\ mvCalls' = mvCalls + 1
    /\ \/ /\ MvDone
          /\ SaveReturn("nil")
       \/ \E e \in MvErrors :
             /\ MvFailed(e)
             /\ \/ /\ isFileFault(e)
                   /\ UNCHANGED <<s_pc, s_err>>
                \/ SaveReturn(e)
    /\ UNCHANGED <<s_data, retryVars, engineVars>>

SaveInit ==
    /\ EngineIdle
    /\ RetryIdle
    /\ s_pc = "upload"
    /\ s_data \in SaveData
    /\ s_err = "nil"
    /\ tmpfile \in {"none", "part"}
    /\ dstfile \in {"none"} \cup SaveData
    /\ mvCalls = 0
    /\ mvErr = "none"

SaveNext ==
    \/ SaveUpload
    \/ SaveMv
    \/ SaveRetryMv

SpecSave == SaveInit /\ [][SaveNext]_vars

----------------------------------------------------------------------------
(* Properties *)

HeadersOf(stream) == {stream[k] : k \in {j \in 1..Len(stream) : stream[j].chunk = "hdr"}}

\* the backend path Import writes the entry called name to
WritePathOf(name) ==
    Join(Join(volumePath, spec.RebasePath), TrimPrefix(name, spec.StripPath))

\* the entry of header h is in the backend, as what the header says it is
Placed(h) ==
    IF h.Typeflag = "dir" THEN IsDirAt(fs, WritePathOf(h.Name))
    ELSE IsFileAt(fs, WritePathOf(h.Name))

ImportSucceeded == i_pc = "done" /\ i_err = "nil"

\* unpackUsingTarget is over: it returned, or it panicked
ImportEnded == i_pc \in {"done", "panic"}

NoFaultInjected == faults = MaxFaults

\* Import is at a place from which it writes the current entry to the backend
ImportWriting == i_pc \in {"mkdirAll", "collect", "create", "createRegularFile"}

\* C1: for a path nested under TargetPath, Excluded is true exactly when some
\* exclusion is a segment prefix of the path and every inclusion that is a
\* segment prefix of it has strictly fewer segments than the longest such
\* exclusion; an inclusion at least as deep makes the path included (with
\* exclusion /a and inclusion /a/b: /a/b and /a/b/f included, /a and /a/f excluded)
C1_ExcludedSpecificity ==
    (f_result # "none" /\ IsSegPrefix(spec.TargetPath, f_path)) =>
        /\ (f_result = "excluded") <=>
              \E e \in spec.Exclusions :
                  /\ IsSegPrefix(e, f_path)
                  /\ \A i \in spec.Inclusions :
                        IsSegPrefix(i, f_path) => Depth(i) < Depth(e)
        /\ (spec.Exclusions = {pA} /\ spec.Inclusions = {pAB}) =>
              /\ f_path \in {pAB, pABF} => f_result = "included"
              /\ f_path \in {pA, pAF} => f_result = "excluded"

\* C1 witness: a path under an exclusion that an inclusion of the same or a
\* greater depth brings back
C1_Witness ==
    /\ f_result = "included"
    /\ IsSegPrefix(spec.TargetPath, f_path)
    /\ \E e \in spec.Exclusions : IsSegPrefix(e, f_path)

\* C3: after a successful Import, every directory or regular-file entry of the
\* stream that is not excluded is in the backend at its write path, as a
\* directory or as a file
C3_ImportedEntriesExist ==
    ImportSucceeded =>
        \A h \in HeadersOf(stream0) :
            (h.Typeflag \in {"dir", "reg"} /\ ~Excluded(h.Name, spec)) => Placed(h)

\* C3 witness: a successful Import under a FilterSpec with exclusions that
\* created the directory of an entry that is not excluded
C3_Witness ==
    /\ ImportSucceeded
    /\ spec.Exclusions # {}
    /\ \E h \in HeadersOf(stream0) :
          /\ h.Typeflag = "dir"
          /\ ~Excluded(h.Name, spec)
          /\ ~Exists(fs0, WritePathOf(h.Name))
          /\ Placed(h)

RoundTripDone ==
    /\ ImportSucceeded
    /\ \A q \in DOMAIN fs0 :
          HasPrefix(q, pV \o <<Sep>>) =>
              LET d == pW \o TrimPrefix(q, pV)
              IN  /\ d \in DOMAIN fs
                  /\ fs[d].kind = fs0[q].kind
                  /\ fs[d].data = fs0[q].data

\* the producer is at a directory whose children no longer fit the work-list
\* of the model
ReadListFull ==
    /\ e_pc = "loop"
    /\ readList # << >>
    /\ IsDirAt(fs, Head(readList))
    /\ Len(readList) + Len(ReadDir(fs, Head(readList))) > MaxReadList

\* C2: with target = root and no inclusions or exclusions, Export of a tree
\* followed by Import of the stream into an empty root succeeds and leaves
\* every directory and regular file of the tree at the same relative path with
\* the same bytes (as long as the backend itself does not fail, and within the
\* length of work-list the model follows)
C2_RoundTrip == <>(~NoFaultInjected \/ ReadListFull \/ RoundTripDone)

\* packUsingTarget ran to its end on a backend that did not fail, and the
\* caller read the stream to its end
ExportCompleted == e_pc = "done" /\ c_end = "EOF" /\ NoFaultInjected

\* C4: Export writes exactly one header for every entry that is not excluded
\* and none for an excluded entry
C4_OneHeaderPerEntry ==
    /\ \A p \in DOMAIN emitted :
          /\ emitted[p] = 1
          /\ e_dir = Root => ~Excluded(p, spec)
    /\ (ExportCompleted /\ e_dir = Root) =>
          \A p \in DOMAIN fs : ~Excluded(p, spec) => p \in DOMAIN emitted

\* C5: in every execution of Export the producer closes the write end of the
\* pipe exactly once (within the length of work-list the model follows)
C5_ClosesExactlyOnce == [](closeCount <= 1) /\ <>(closeCount = 1 \/ ReadListFull)

\* C6: when the producer met a fatal error, what the consumer observes at the
\* end of the stream is that error, never a clean end-of-file
C6_ConsumerSeesFatalError ==
    (e_fatal # "nil" /\ c_end # "none") => c_end = e_fatal

\* every entry is a directory or a regular file with the mode of its kind
OrdinaryEntries ==
    \A h \in HeadersOf(stream0) : h.Typeflag \in {"dir", "reg"} /\ ~h.ModeDir

\* every entry is a directory, a regular file or a symbolic link with the mode
\* of its kind
OrdinaryEntriesOrSymlinks ==
    \A h \in HeadersOf(stream0) : h.Typeflag \in {"dir", "reg", "symlink"} /\ ~h.ModeDir

\* a whole stream of ordinary entries, read without error into a volume that
\* holds at most the directory of the write target, on a backend that did not fail
WellFormedImport ==
    /\ stream0 \in WholeStreams
    /\ pipeErr = "nil"
    /\ OrdinaryEntries
    /\ fs0 \in {FreshVolume(pV), Put(FreshVolume(pV), pV \o pD, DirNode("0755"))}
    /\ NoFaultInjected

\* C8: an Import with write target /d places every entry N that is not
\* excluded at <volume>/d/N, and excludes the entries it excludes with a
\* root target
C8_NonRootTarget ==
    (spec.RebasePath = pD /\ WellFormedImport /\ ImportEnded) =>
        /\ ImportSucceeded
        /\ \A h \in HeadersOf(stream0) :
              /\ Excluded(h.Name, spec) <=> Excluded(h.Name, [spec EXCEPT !.RebasePath = Root])
              /\ ~Excluded(h.Name, spec) =>
                    /\ Placed(h)
                    /\ WritePathOf(h.Name) = pV \o pD \o h.Name

\* C9: with exclusion /a and inclusion /a/b, Import leaves every entry under
\* /a/b in the backend with all its ancestors as directories, and writes no
\* other entry under /a
C9_IncludedBeneathExcluded ==
    (/\ spec.Exclusions = {pA}
     /\ spec.Inclusions = {pAB}
     /\ WellFormedImport
     /\ ImportEnded) =>
        /\ ImportSucceeded
        /\ \A h \in HeadersOf(stream0) :
              IF IsSegPrefix(pAB, h.Name)
              THEN /\ Placed(h)
                   /\ IsDirAt(fs, WritePathOf(pA))
                   /\ IsDirAt(fs, WritePathOf(pAB))
              ELSE IsSegPrefix(pA, h.Name) =>
                       (\/ ~Exists(fs, WritePathOf(h.Name))
                        \/ \E g \in HeadersOf(stream0) :
                              IsSegPrefix(pAB, g.Name) /\ IsSegPrefix(h.Name, g.Name))

\* C10: after a VolumeStore.Import call that mounted the backend has returned,
\* with or without an error, the unmount has run exactly once
C10_ReleaseRunsOnce ==
    (v_pc = "returned" /\ mounts = 1) => unmounts = 1

\* C11: Close returns no error whether or not the unmount failed, and what
\* Import returned is not changed afterwards, by Close or by anything else
C11_ReleaseFailureKeepsResult ==
    /\ [](v_pc = "closed" => close_ret = "nil")
    /\ [][i_pc = "done" => (i_pc' = i_pc /\ i_err' = i_err)]_vars

\* C11 witness: the sink was closed after a successful import and the
\* unmount failed
C11_Witness ==
    /\ v_pc = "closed"
    /\ unmountErr = "ErrUnmount"
    /\ ImportSucceeded

\* the Lookup of volumePath of line 76 is made in this step and fails
WriteRootLookupFails ==
    /\ i_pc = "start"
    /\ spec.RebasePath # Empty
    /\ ~Exists(fs, volumePath) \/ faults' # faults

\* C12: when the lookup of the import's write root fails, Import returns an
\* error in that step: no entry has been decoded, the backend is as it was,
\* and nothing happens after the return
C12_WriteRootLookupFailure ==
    /\ [][WriteRootLookupFails =>
            /\ i_pc' = "done"
            /\ i_err' \in {"ENOENT", "EIO"}
            /\ header' = NoHeader
            /\ pipe' = stream0
            /\ fs' = fs0]_vars
    /\ [][i_pc = "done" => (fs' = fs /\ pipe' = pipe /\ header' = header)]_vars

\* C12 witness: Import returned not-found for a volume directory that is not
\* there, with a stream of entries waiting
C12_Witness ==
    /\ i_pc = "done"
    /\ i_err = "ENOENT"
    /\ ~Exists(fs0, volumePath)
    /\ HeadersOf(stream0) # {}
    /\ pipe = stream0
    /\ fs = fs0

\* tr.Next() is called in this step and finds the stream at its clean end
DecodeReachesEOF ==
    /\ i_pc = "next"
    /\ pipe = << >>
    /\ pipeW = "closed"
    /\ pipeErr = "nil"
    /\ ~i_unread

\* tr.Next() is called in this step and fails with something else than
\* end-of-stream: the stream ends with an error or inside an entry, or what
\* follows is no header
DecodeError ==
    IF i_pc # "next" THEN "nil"
    ELSE IF pipe = << >> /\ pipeW = "closed" /\ pipeErr # "nil" THEN pipeErr
    ELSE IF pipe = << >> /\ pipeW = "closed" /\ i_unread THEN "ErrUnexpectedEOF"
    ELSE IF pipe # << >> /\ (i_unread <=> Head(pipe).chunk = "hdr") THEN "ErrHeader"
    ELSE "nil"

\* C13: Import returns nil exactly in a step in which header decoding reaches
\* the end of the stream, which it does only if no step before returned an
\* error; a decode error that is not end-of-stream is returned as it is
C13_SuccessIffEndOfStream ==
    [][(i_pc # "done" /\ i_pc' = "done") =>
          /\ i_err' = "nil" <=> DecodeReachesEOF
          /\ DecodeError # "nil" => i_err' = DecodeError]_vars

\* C13 witness: Import wrote an entry and then returned the decode error the
\* stream ended with
C13_Witness ==
    /\ i_pc = "done"
    /\ i_err = "ErrHeader"
    /\ pipeErr = "ErrHeader"
    /\ pipe = << >>
    /\ fs # fs0

\* the bytes of the entry of header h in the stream: those of the data chunk
\* that follows the header, none when the entry is empty
EntryBytes(stream, h) ==
    LET k == CHOOSE j \in 1..Len(stream) : stream[j] = h
    IN  IF h.Size > 0 /\ k < Len(stream) /\ stream[k + 1].chunk = "data"
        THEN stream[k + 1].Bytes
        ELSE Empty

\* a whole stream read without error, with a write target and a volume
\* directory, on a backend that did not fail
CleanImport ==
    /\ spec.RebasePath # Empty
    /\ Exists(fs0, volumePath)
    /\ stream0 \in WholeStreams
    /\ pipeErr = "nil"
    /\ NoFaultInjected

\* C14: after the import of a regular-file entry whose write path held a
\* regular file, the path holds a file with exactly the bytes of the entry
C14_ExistingFileReplaced ==
    (CleanImport /\ ImportEnded) =>
        \A h \in HeadersOf(stream0) :
            (/\ h.Typeflag = "reg"
             /\ ~Excluded(h.Name, spec)
             /\ IsFileAt(fs0, WritePathOf(h.Name))) =>
                /\ IsFileAt(fs, WritePathOf(h.Name))
                /\ fs[Resolve(WritePathOf(h.Name))].data = EntryBytes(stream0, h)

\* the symbolic-link entries of the stream that are not excluded
SymlinkEntries ==
    {h \in HeadersOf(stream0) : h.Typeflag = "symlink" /\ ~Excluded(h.Name, spec)}

\* C15: a symbolic-link entry does not make Import fail and nothing is written
\* for it: an import whose only entries to write are symbolic links returns
\* nil and leaves the backend as it was
C15_SymlinkSkipped ==
    (/\ CleanImport
     /\ SymlinkEntries # {}
     /\ \A h \in HeadersOf(stream0) : h.Typeflag = "symlink" \/ Excluded(h.Name, spec)
     /\ ImportEnded) =>
        /\ ImportSucceeded
        /\ fs = fs0

\* C16: an import of a stream with a symbolic link whose target does not
\* exist returns nil; afterwards the link path is not found and every other
\* entry of the stream that is not excluded is in the backend
C16_BrokenSymlinkImport ==
    (CleanImport /\ OrdinaryEntriesOrSymlinks /\ SymlinkEntries # {} /\ ImportEnded) =>
        /\ ImportSucceeded
        /\ \A h \in SymlinkEntries : ~Exists(fs, WritePathOf(h.Name))
        /\ \A h \in HeadersOf(stream0) \ SymlinkEntries : ~Excluded(h.Name, spec) => Placed(h)

\* Import has returned an error
ImportFailed == i_pc = "done" /\ i_err # "nil"

\* C17: a failed Import performs no rollback and stops at the failing entry:
\* the step that returns the error leaves every node of the backend as it was
\* and decodes nothing more, and after the return the backend, the rest of the
\* stream and the one error returned stay as they are
C17_NoRollback ==
    /\ [][(i_pc # "done" /\ i_pc' = "done" /\ i_err' # "nil") =>
              /\ \A p \in DOMAIN fs : p \in DOMAIN fs' /\ fs'[p] = fs[p]
              /\ pipe' = pipe]_vars
    /\ [][i_pc = "done" => UNCHANGED <<fs, pipe, i_err>>]_vars

\* C17 witness: a failed Import that had written to the backend for an
\* earlier entry and left a later entry of the stream undecoded
C17_Witness ==
    /\ ImportFailed
    /\ fs # fs0
    /\ \E k \in 1..Len(pipe) : pipe[k].chunk = "hdr"

\* C18: the walk root of Export is the smallest path of Inclusions in the
\* order of strings when there are inclusions, and TargetPath when there are
\* none; it is a function of the FilterSpec
C18_WalkRoot ==
    targetPath # Empty =>
        IF spec.Inclusions # {}
        THEN /\ targetPath \in spec.Inclusions
             /\ \A i \in spec.Inclusions : i = targetPath \/ LessStr(targetPath, i)
        ELSE targetPath = spec.TargetPath

\* the paths of the mapping that have the target role
TargetsOf(m) == {q \in DOMAIN m : m[q] = "target"}

\* C19: CreateFilterSpec succeeds exactly when one path of the mapping has the
\* target role, and then returns a FilterSpec with that path as TargetPath; a
\* mapping with no target or with more than one yields an error and no
\* FilterSpec
C19_ExactlyOneTarget ==
    c_err # "none" =>
        /\ (c_err = "nil") <=> (Cardinality(TargetsOf(specMap)) = 1)
        /\ (c_err = "nil") => /\ Len(created) = 1
                              /\ created[1].TargetPath \in TargetsOf(specMap)
        /\ (c_err # "nil") => created = << >>

\* C19 witness: a mapping with two targets was refused
C19_Witness ==
    /\ c_err \notin {"none", "nil"}
    /\ Cardinality(TargetsOf(specMap)) = 2

\* the Lookup of the entry at the head of the work-list finds nothing
HeadVanished ==
    /\ e_pc = "loop"
    /\ readList # << >>
    /\ ~Excluded(Head(readList), spec)
    /\ ~Exists(fs, Head(readList))

\* C20: the iteration of Export that finds the entry at the head of the
\* work-list gone takes it off the list and nothing else: no header and no
\* data are written, the error of the traversal stays as it was, and the loop
\* goes on with the rest of the list
C20_VanishedEntrySkipped ==
    [][(HeadVanished /\ e_iter' # e_iter) =>
           /\ readList' = Tail(readList)
           /\ emitted' = emitted
           /\ pipe' = pipe
           /\ e_fatal' = e_fatal
           /\ tw_err' = tw_err
           /\ e_pc' = "loop"]_vars

\* C20 witness: the traversal has skipped an entry that was not in the
\* backend, without a header and without an error
C20_Witness ==
    /\ e_pc \in {"loop", "close", "done"}
    /\ e_iter = 1
    /\ readList = << >>
    /\ ~Excluded(Join(e_dir, targetPath), spec)
    /\ ~Exists(fs, Join(e_dir, targetPath))
    /\ e_fatal = "nil"

\* the Open of the regular file at the head of the work-list is refused for
\* want of permission, after its header went into the stream
OpenDenied ==
    /\ e_pc = "copy"
    /\ fs[Resolve(Head(readList))].perm = "0000"
    /\ tw_err = "nil"
    /\ tw_pending > 0
    /\ pipeR = "open"

\* C21: a permission-denied Open is swallowed for that entry only: the step
\* writes no body, the traversal goes on, no error of the traversal is set,
\* and the stream can still end without a terminal error
C21_PermissionDeniedSwallowed ==
    [][(OpenDenied /\ e_pc' = "loop" /\ faults' = faults) =>
           /\ pipe' = pipe
           /\ e_fatal' = e_fatal
           /\ TarWriterCloseError' = "nil"]_vars

\* C22: the Export producer is never ahead of the consumer by more than the
\* chunk being written: the pipe holds at most one unread chunk, and while a
\* chunk is unread and the read end stays open the producer does not move
C22_Backpressure ==
    /\ [](Len(pipe) <= 1)
    /\ [][(pipe # << >> /\ pipeR = "open" /\ pipeR' = "open") =>
              UNCHANGED <<e_pc, readList, emitted, tw_pending, tw_err, pipeW>>]_vars

\* C22 witness: the producer waits in the copy of a file's data for the
\* consumer to read the header of that file
C22_Witness ==
    /\ e_pc = "copy"
    /\ pipeR = "open"
    /\ Len(pipe) = 1
    /\ pipe[1].chunk = "hdr"

\* C23: once the consumer has closed the read end of the stream, the Export
\* producer eventually ends and closes its end of the pipe (the model stops a
\* traversal whose work-list has reached its bound)
C23_ProducerEndsAfterClose ==
    (pipeR = "closed") ~> ((e_pc = "done" /\ pipeW = "closed") \/ ReadListFull)

\* the entry at the head of the work-list is in the backend and not excluded
HeadPresent ==
    /\ e_pc = "loop"
    /\ readList # << >>
    /\ ~Excluded(Head(readList), spec)
    /\ Exists(fs, Head(readList))

\* C24: an iteration of Export in which the backend fails on an entry that
\* exists ends the traversal with that error: nothing more is processed
C24_LookupFailureAborts ==
    [][(HeadPresent /\ e_iter' # e_iter /\ faults' # faults) =>
           /\ e_pc' = "close"
           /\ e_fatal' = "EIO"
           /\ readList' = readList]_vars

\* C25: when the Open of a regular file fails for a reason other than
\* permission, or the copy of its bytes fails, the traversal ends with an
\* error: the producer goes to the close of the stream, not back to the loop
C25_OpenOrCopyFailureAborts ==
    [][(e_pc = "copy" /\ faults' # faults) =>
           /\ e_pc' = "close"
           /\ e_fatal' # "nil"]_vars

\* the directory the walk of Export starts at
WalkRoot == Resolve(Join(e_dir, targetPath))

\* the directories strictly above q that are at or beneath the walk root
AncestorsInWalk(q) ==
    {p \in DOMAIN fs : p # q /\ IsSegPrefix(p, q) /\ IsSegPrefix(WalkRoot, p)}

EndsWithSep(name) == name # << >> /\ name[Len(name)] = Sep

\* C26: whenever the header of an entry has gone into the stream, the header
\* of every directory above it in the walk has gone before it; the header of
\* a directory carries a name that ends in the separator, and the iteration
\* that handles a directory without a failure of the backend appends every
\* child ReadDir lists to the work-list
C26_DirectoryBeforeChildren ==
    /\ [](\A q \in DOMAIN emitted : \A p \in AncestorsInWalk(q) : p \in DOMAIN emitted)
    /\ [][(/\ HeadPresent
           /\ IsDirAt(fs, Head(readList))
           /\ e_iter' # e_iter
           /\ faults' = faults) =>
              /\ readList' = readList \o ReadDir(fs, Head(readList))
              /\ (emitted' # emitted => EndsWithSep(pipe'[1].Name))]_vars

\* C26 witness: the header of a child of the walk root is in the stream, and
\* so is the header of the walk root
C26_Witness ==
    \E q \in DOMAIN emitted :
        /\ q # WalkRoot
        /\ WalkRoot \in AncestorsInWalk(q)
        /\ WalkRoot \in DOMAIN emitted

\* C27: an entry whose archive name is excluded is never written: Import is
\* at a place that writes only for an entry that is not excluded, and the
\* backend changes only there
C27_ExcludedEntryWritesNothing ==
    /\ [](ImportWriting => ~Excluded(header.Name, spec))
    /\ [][fs' # fs => (ImportWriting /\ ~Excluded(header.Name, spec))]_vars

\* C27 witness: Import has read the header of an excluded directory entry and
\* is at the next entry, with nothing at the write path of the excluded one
C27_Witness ==
    /\ i_pc = "next"
    /\ header.Typeflag = "dir"
    /\ Excluded(header.Name, spec)
    /\ IsSegPrefix(spec.TargetPath, header.Name)
    /\ ~Exists(fs, WritePathOf(header.Name))
    /\ fs = fs0

\* the name of an entry without the StripPath it starts with, character by
\* character; a name that does not start with it is kept whole
Stripped(name) ==
    IF /\ Len(spec.StripPath) <= Len(name)
       /\ \A k \in 1..Len(spec.StripPath) : name[k] = spec.StripPath[k]
    THEN [k \in 1..(Len(name) - Len(spec.StripPath)) |-> name[k + Len(spec.StripPath)]]
    ELSE name

\* C28: while Import writes an entry, the write path is made of the elements
\* of the volume path, then those of RebasePath, then those of the entry's
\* name without StripPath
C28_WritePath ==
    ImportWriting =>
        Segments(writePath) =
            Segments(volumePath) \o Segments(spec.RebasePath) \o Segments(Stripped(header.Name))

\* C28 witness: Import writes an entry whose name starts with a StripPath
\* that is not empty, under a RebasePath that is not the root
C28_Witness ==
    /\ ImportWriting
    /\ spec.StripPath = pA
    /\ spec.RebasePath = pD
    /\ header.Name = pAB
    /\ writePath = pV \o pD \o <<Sep, "b">>

\* the paths strictly above p, up to the root of the backend
AncestorsOf(p) == {q \in {Resolve(SubSeq(p, 1, k)) : k \in 1..Len(p)} : q # Resolve(p)}

\* the regular-file entries of the stream that are not excluded
FileEntries ==
    {h \in HeadersOf(stream0) : h.Typeflag = "reg" /\ ~h.ModeDir /\ ~Excluded(h.Name, spec)}

\* C29: after the import of regular-file entries that find nothing at their
\* write path and no file in the way above it, each write path is a regular
\* file and everything above it is a directory
C29_FileWithMissingParents ==
    (/\ CleanImport
     /\ FileEntries # {}
     /\ \A h \in HeadersOf(stream0) : h \in FileEntries \/ Excluded(h.Name, spec)
     /\ \A h \in FileEntries :
           /\ ~Exists(fs0, WritePathOf(h.Name))
           /\ \A q \in AncestorsOf(WritePathOf(h.Name)) : ~IsFileAt(fs0, q)
     /\ ImportEnded) =>
        \A h \in FileEntries :
            /\ IsFileAt(fs, WritePathOf(h.Name))
            /\ \A q \in AncestorsOf(WritePathOf(h.Name)) : IsDirAt(fs, q)

\* the directory entries of the stream that are not excluded
DirEntries ==
    {h \in HeadersOf(stream0) : h.Typeflag = "dir" /\ ~Excluded(h.Name, spec)}

\* C30: mkdirAll never creates a directory whose parent is not there, and a
\* directory that Import created at the write path of a directory entry has
\* the permission bits of that entry
C30_RootToLeafWithDeclaredMode ==
    /\ [][\A p \in DOMAIN fs' \ DOMAIN fs : IsDirAt(fs, ParentOf(p))]_vars
    /\ [](\A h \in DirEntries :
             (/\ spec.RebasePath # Empty
              /\ IsDirAt(fs, WritePathOf(h.Name))
              /\ ~Exists(fs0, WritePathOf(h.Name))) =>
                 fs[Resolve(WritePathOf(h.Name))].perm = h.Perm)

\* mkdirAll looks up a path that is in the backend and is not a directory:
\* the path to create at its first Lookup, the path above it in the loop
MkdirAllMeetsFile ==
    /\ ModeIsDir(header)
    /\ \/ i_pc = "mkdirAll" /\ IsFileAt(fs, writePath)
       \/ i_pc = "collect" /\ currentPath # Root /\ IsFileAt(fs, currentPath)

\* the errors mkdirAll returns for a path that exists as a non-directory
ConflictErrors == {"EEXIST", "ErrConflict"}

C32_FileOverDirectory ==
    (/\ CleanImport
     /\ FileEntries # {}
     /\ \A h \in HeadersOf(stream0) : h \in FileEntries \/ Excluded(h.Name, spec)
     /\ \A h \in FileEntries : IsDirAt(fs0, WritePathOf(h.Name))
     /\ ImportEnded) =>
        /\ i_pc = "done"
        /\ i_err = "ErrOverwriteDir"
        /\ fs = fs0

CopyFails ==
    /\ i_pc = "createRegularFile"
    /\ i_unread
    /\ ~Exists(fs, writePath)
    /\ IsFileAt(fs', writePath)
    /\ i_unread'

\* C34: the call of createRegularFile in which the copy of the entry's bytes
\* fails returns an error from Import and reads nothing more from the stream,
\* and once Import has returned nothing is read or written
C34_CopyFailureAborts ==
    /\ [][CopyFails => (i_pc' = "done" /\ i_err' # "nil" /\ pipe' = pipe)]_vars
    /\ [][i_pc = "done" => UNCHANGED <<fs, pipe, i_err>>]_vars

\* C34 witness: Import returned the error of a failed copy with the file
\* created, its data unread and a later entry left in the stream
C34_Witness ==
    /\ i_pc = "done"
    /\ i_err = "EIO"
    /\ i_unread
    /\ IsFileAt(fs, writePath)
    /\ ~Exists(fs0, writePath)
    /\ \E k \in 1..Len(pipe) : pipe[k].chunk = "hdr"

\* C35: with a consumer that keeps reading, the Export producer comes to its
\* end (the model stops a traversal whose work-list has reached its bound)
C35_ProducerTerminates ==
    <>(pipeR = "closed" \/ ReadListFull \/ e_pc = "done")

\* C36: every iteration of the loop of mkdirAll that collects a missing
\* directory and goes round again moves the path it looks up one level
\* towards the root
C36_CollectLoopMovesUp ==
    [][(i_pc = "collect" /\ i_pc' = "collect") =>
           Depth(currentPath') < Depth(currentPath)]_vars

\* C37: with an empty RebasePath Import returns the invalid-target error at
\* its first step, whatever the backend holds: no Lookup has been made (none
\* can have failed), nothing of the stream has been read and the backend is
\* as it was
C37_EmptyRebasePath ==
    (spec.RebasePath = Empty /\ i_pc # "start") =>
        /\ i_pc = "done"
        /\ i_err = "ErrInvalidTarget"
        /\ faults = MaxFaults
        /\ pipe = stream0
        /\ fs = fs0

\* C37 witness: the invalid-target error for a stream with entries, on a
\* backend that does not even hold the volume directory
C37_Witness ==
    /\ spec.RebasePath = Empty
    /\ i_pc = "done"
    /\ i_err = "ErrInvalidTarget"
    /\ ~Exists(fs, volumePath)
    /\ pipe # << >>

\* C38: Retry calls the operation again only after a failure with a
\* TaskInProgressFault; a success is returned by the call that met it, and a
\* failure with any other fault, or with none, is returned by the call that
\* met it, as the TaskError
C38_RetryOnlyInProgress ==
    [][r_calls' # r_calls =>
          /\ r_calls > 0 => r_result = "TaskInProgress"
          /\ r_result' = "ok" => (r_pc' = "done" /\ r_ret' = "info")
          /\ r_result' \notin {"ok", "TaskInProgress"} =>
                (r_pc' = "done" /\ r_ret' = "TaskError")]_vars

\* C39: backoffFactor is 1 until a wait has completed; a completed wait, and
\* nothing else, doubles it up to maxBackoffFactor, so that it is always one
\* of 1, 2, 4, 8, 16; a wait ended by the context returns the context's error
\* and no call of the operation follows
C39_BackoffFactor ==
    /\ [](r_select = "none" => backoffFactor = 1)
    /\ [][/\ backoffFactor' \in {1, 2, 4, 8, 16}
          /\ backoffFactor' <= maxBackoffFactor
          /\ (r_pc = "sleep" /\ r_select' = "timer") =>
                backoffFactor' = IF 2 * backoffFactor > maxBackoffFactor
                                   THEN maxBackoffFactor
                                   ELSE 2 * backoffFactor
          /\ backoffFactor' # backoffFactor => (r_pc = "sleep" /\ r_select' = "timer")
          /\ (r_pc = "sleep" /\ r_select' = "ctx") =>
                (r_pc' = "done" /\ r_ret' = "ctxErr")
          /\ r_ret = "ctxErr" => r_calls' = r_calls]_vars

\* C39 witness: a wait has completed, after more than one call, and the
\* factor has doubled
C39_Witness ==
    /\ r_select = "timer"
    /\ r_calls > 1
    /\ sleepValue \in {50, 149}
    /\ backoffFactor = 2

\* C40: the file at path changes only in a move, of a temporary file that
\* holds the whole content; an upload that fails ends Save with its error
\* before any move; a first move that fails with FileNotFound is followed by
\* another move, and one that fails with any other error ends Save with that
\* error after this one move
C40_SaveMovesUploadedFile ==
    /\ [](s_err = "uploadErr" => (s_pc = "done" /\ mvCalls = 0))
    /\ [][/\ dstfile' # dstfile =>
                (mvCalls' = mvCalls + 1 /\ tmpfile = s_data /\ dstfile' = s_data)
          /\ s_pc = "upload" => (dstfile' = dstfile /\ mvCalls' = 0)
          /\ (s_pc = "mv" /\ isFileFault(mvErr')) => s_pc' = "retry"
          /\ s_pc = "retry" => mvCalls' = mvCalls + 1
          /\ (s_pc = "mv" /\ mvErr' \in MvErrors /\ ~isFileFault(mvErr')) =>
                (s_pc' = "done" /\ s_err' = mvErr' /\ mvCalls' = 1)
          /\ s_pc = "done" => UNCHANGED <<dstfile, mvCalls, s_err>>]_vars

\* C40 witness: a Save that met FileNotFound, moved again and replaced the
\* file at path
C40_Witness ==
    /\ s_pc = "done"
    /\ s_err = "nil"
    /\ mvCalls > 1
    /\ dstfile = s_data
    /\ tmpfile = "none"

====
